---- MODULE Spec2Model ----
(***************************************************************************)
(* RPCSEC_GSS client authentication: net/sunrpc/auth_gss/auth_gss.c        *)
(*                                                                         *)
(* The model follows the C source function by function.  A structure of    *)
(* the source is a record, a pointer is the index of the record in its    *)
(* pool (NULL is 0), and a function of the source that changes shared      *)
(* state is an operator from a kernel state k (the record of the shared    *)
(* variables) to the kernel state after the call, so that a caller is the  *)
(* composition of its callees in program order.  Code that runs under      *)
(* pipe->lock is one step; code outside a lock is cut at every place where *)
(* another thread can observe the difference.                              *)
(*                                                                         *)
(* Time is counted in seconds (HZ jiffies).                                *)
(***************************************************************************)
EXTENDS Integers, Sequences, FiniteSets, TLC

(***************************************************************************)
(* Bounds of the model.                                                    *)
(***************************************************************************)
NTasks == 2
MaxMsgs == 2
MaxCtxs == 2
MaxCreds == 2
MaxTime == 2
\* module parameter expired_cred_retry_delay (seconds); the source's default
\* is GSS_RETRY_EXPIRED = 5, any unsigned value may be configured
RetryDelay == 1
\* gss_marshal is not started on a context whose gc_seq is beyond this
MaxSeq == 2
\* how far below zero the model follows pipe_users
MaxUnderflow == 1

(***************************************************************************)
(* Program constants.                                                      *)
(***************************************************************************)
NULL == 0
EAGAIN == 11
ENOMEM == 12
EACCES == 13
EFAULT == 14
EBUSY == 16
EINVAL == 22
EPIPE == 32
ENOSYS == 38
ENOENT == 2
ETIMEDOUT == 110
EKEYEXPIRED == 127
ERESTARTSYS == 512
GSSD_MIN_TIMEOUT == 3600
MSG_BUF_MAXSIZE == 1024
EFBIG == 27
EIO == 5
\* jiffies per second: the clock of the model ticks once a second
HZ == 1
RPC_GSS_PROC_DATA == 0
RPC_GSS_PROC_DESTROY == 3

Tasks == 1..NTasks
Msgs == 1..MaxMsgs
Ctxs == 1..MaxCtxs
Creds == 1..MaxCreds
Pipes == {0, 1}

\* a char * that is NULL
NoString == "(null)"

\* struct auth_cred values the callers look up: an ordinary user, and the
\* machine credential of uid 0 with its principal
ACreds ==
    { [uid |-> 1000, principal |-> NoString, machine_cred |-> FALSE],
      [uid |-> 0, principal |-> "nfs", machine_cred |-> TRUE] }

VARIABLES
    now,                \* jiffies
    pipe_version,       \* sn->pipe_version
    pipe_users,         \* sn->pipe_users
    pipe_version_lock,  \* "free", or the critical section that holds it
    gssd_running,       \* sn->gssd_running
    pipe_open,          \* pipe_open[p]: userspace holds gss_auth->pipe[p] open
    in_downcall,        \* in_downcall[p]: messages linked in pipe[p]->in_downcall
    pipe_queue,         \* pipe_queue[p]: messages queued in pipe[p]->pipe (msg.list)
    msg,                \* struct gss_upcall_msg pool
    ctx,                \* struct gss_cl_ctx pool
    cred,               \* struct gss_cred pool
    task,               \* the requesters: rpc_tasks and threads in a cred lookup
    daemon,             \* the userspace thread inside a pipe operation
    auth,               \* struct gss_auth: its kref and its pipefs dentries
    call                \* one call of a function that only computes: its
                        \* arguments, the buffers it works on and its result

vars == << now, pipe_version, pipe_users, pipe_version_lock, gssd_running,
           pipe_open, in_downcall, pipe_queue, msg, ctx, cred, task, daemon,
           auth, call >>

(***************************************************************************)
(* Records.                                                                *)
(***************************************************************************)
\* a free slot of the message pool
NoMsg ==
    [ st |-> "free", count |-> 0, uid |-> 0, pipe |-> 0, ctx |-> NULL,
      errno |-> 0, service_name |-> NoString, vers |-> 0,
      msg_list |-> "zero" ]

\* a free slot of the context pool
NoCtx ==
    [ st |-> "free", count |-> 0, gc_proc |-> 0, gc_seq |-> 0, gc_expiry |-> 0,
      gc_win |-> 0, gc_wire_ctx |-> 0, gc_gss_ctx |-> 0, gc_seq_lock |-> NULL,
      gp |-> {} ]

\* a free slot of the credential pool
NoCred ==
    [ st |-> "free", cr_uid |-> 0, gc_principal |-> NoString, cr_flags |-> {},
      gc_ctx |-> NULL, gc_upcall |-> NULL, gc_upcall_timestamp |-> 0,
      cr_ops |-> "gss_credops", cr_count |-> 0 ]

\* a requester that is not running
IdleTask ==
    [ pc |-> "idle", mode |-> "none", cred |-> NULL, gss_new |-> NULL,
      gss_msg |-> NULL, wq |-> NULL, cb |-> FALSE, fn |-> "none", err |-> 0,
      hook |-> "none", ctx |-> NULL, rq_seqno |-> 0, maj_stat |-> "none" ]

IdleDaemon ==
    [ pc |-> "idle", pipe |-> 0, msg |-> NULL, ctx |-> NULL, buf |-> << >>,
      err |-> 0 ]

\* the gss_auth that gss_create has returned: the caller's reference, both
\* pipefs dentries made.  pc is the place of its life it is at, op the step
\* of gss_pipes_dentries_create or gss_pipes_dentries_destroy in progress,
\* err the result of the last gss_pipes_dentries_create, frees the number of
\* times the structure has been handed to kfree
NewAuth ==
    [ pc |-> "live", op |-> "none", kref |-> 1,
      dentry |-> [p \in Pipes |-> TRUE], err |-> 0, frees |-> 0 ]

\* The shared kernel state the functions of the source act on.
K ==
    [ msg |-> msg, ctx |-> ctx, cred |-> cred, task |-> task,
      in_downcall |-> in_downcall, pipe_queue |-> pipe_queue,
      pipe_users |-> pipe_users, pipe_version |-> pipe_version,
      pipe_version_lock |-> pipe_version_lock, auth |-> auth,
      call |-> call ]

\* the state after a step is k0; it is bound to k and so evaluated once
Commit(k0) ==
    \E k \in {k0} :
        /\ msg' = k.msg
        /\ ctx' = k.ctx
        /\ cred' = k.cred
        /\ task' = k.task
        /\ in_downcall' = k.in_downcall
        /\ pipe_queue' = k.pipe_queue
        /\ pipe_users' = k.pipe_users
        /\ pipe_version' = k.pipe_version
        /\ pipe_version_lock' = k.pipe_version_lock
        /\ auth' = k.auth
        /\ call' = k.call

Min(S) == CHOOSE x \in S : \A y \in S : x <= y


(***************************************************************************)
(* Reference counts of contexts.                                           *)
(***************************************************************************)
\* a faulty gss_get_ctx that takes no reference
gss_get_ctx_none(k, c) == k

\* gss_get_ctx: atomic_inc(&ctx->count)
gss_get_ctx(k, c) ==
    [k EXCEPT !.ctx[c].count = @ + 1]

\* the tasks inside rcu_read_lock() .. rcu_read_unlock() of gss_cred_get_ctx
RcuReaders(k) ==
    {t \in Tasks : k.task[t].pc = "get_ctx_rcu"}

\* gss_free_ctx: call_rcu(&ctx->gc_rcu, gss_free_ctx_callback); the callback
\* runs once every reader that was inside a read-side section has left it
gss_free_ctx(k, c) ==
    [k EXCEPT !.ctx[c].st = "rcu", !.ctx[c].gp = RcuReaders(k)]

\* gss_put_ctx: if (atomic_dec_and_test(&ctx->count)) gss_free_ctx(ctx)
gss_put_ctx(k, c) ==
    IF k.ctx[c].count = 1
    THEN gss_free_ctx([k EXCEPT !.ctx[c].count = 0], c)
    ELSE [k EXCEPT !.ctx[c].count = @ - 1]

\* a faulty gss_cred_set_ctx that flips the flags without installing
gss_cred_set_ctx_flags_only(k, c, x) ==
    [k EXCEPT !.cred[c].cr_flags = (@ \cup {"UPTODATE"}) \ {"NEW"}]

\* a faulty gss_cred_set_ctx that clears RPCAUTH_CRED_NEW first
gss_cred_set_ctx_order_new_first ==
    << "clear_bit", "rcu_assign_pointer", "set_bit" >>

\* the stores of gss_cred_set_ctx in program order; the
\* smp_mb__before_atomic() keeps clear_bit behind the other two
gss_cred_set_ctx_order ==
    << "rcu_assign_pointer", "set_bit", "clear_bit" >>

\* one store of gss_cred_set_ctx: gss_get_ctx and rcu_assign_pointer of
\* gc_ctx, set_bit of RPCAUTH_CRED_UPTODATE, clear_bit of RPCAUTH_CRED_NEW
gss_cred_set_ctx_store(k, c, x, s) ==
    IF s = "rcu_assign_pointer"
    THEN [gss_get_ctx(k, x) EXCEPT !.cred[c].gc_ctx = x]
    ELSE IF s = "set_bit"
    THEN [k EXCEPT !.cred[c].cr_flags = @ \cup {"UPTODATE"}]
    ELSE [k EXCEPT !.cred[c].cr_flags = @ \ {"NEW"}]

\* gss_cred_set_ctx
gss_cred_set_ctx(k, c, x) ==
    IF "NEW" \notin k.cred[c].cr_flags
    THEN k
    ELSE gss_cred_set_ctx_store(
             gss_cred_set_ctx_store(
                 gss_cred_set_ctx_store(k, c, x, gss_cred_set_ctx_order[1]),
                 c, x, gss_cred_set_ctx_order[2]),
             c, x, gss_cred_set_ctx_order[3])

(***************************************************************************)
(* The pipe version.                                                       *)
(***************************************************************************)
\* a faulty put_pipe_version that only decrements
put_pipe_version_dec_only(k) ==
    [k EXCEPT !.pipe_users = @ - 1]

\* put_pipe_version: atomic_dec_and_lock() decrements without the lock unless
\* the count would reach zero; it reaches zero only with the lock held, and
\* the holder then resets the version (PutPipeVersionReset) and unlocks
put_pipe_version(k) ==
    IF k.pipe_users = 1
    THEN [k EXCEPT !.pipe_users = 0, !.pipe_version_lock = "put_pipe_version"]
    ELSE [k EXCEPT !.pipe_users = @ - 1]

\* a thread about to drop the last user spins until the lock is free
CanPutPipeVersion ==
    /\ pipe_users > -MaxUnderflow
    /\ pipe_users # 1 \/ pipe_version_lock = "free"

(***************************************************************************)
(* Upcall messages.                                                        *)
(***************************************************************************)
\* rpc_wake_up_status(&gss_msg->rpc_waitqueue, status): every task queued on
\* the message's queue becomes runnable with tk_status = status
rpc_wake_up_status(k, m, status) ==
    [k EXCEPT !.task =
        [t \in Tasks |->
            IF k.task[t].pc = "sleep_msg" /\ k.task[t].wq = m
            THEN [k.task[t] EXCEPT !.pc = "woken", !.err = status]
            ELSE k.task[t]]]

\* a faulty wake_up_all that leaves the sleepers asleep
wake_up_all_none(k, m) == k

\* wake_up_all(&gss_msg->waitqueue): every thread that sleeps in the wait
\* loop of gss_create_upcall on this message returns from schedule() and
\* goes round the loop
wake_up_all(k, m) ==
    [k EXCEPT !.task =
        [t \in Tasks |->
            IF k.task[t].pc = "wait_msg" /\ k.task[t].wq = m
            THEN [k.task[t] EXCEPT !.pc = "attach", !.wq = NULL]
            ELSE k.task[t]]]

\* kfree(gss_msg): the slot is free.  Nothing counts the pipe queue's pointer
\* to a message, so the message may be freed while it is queued; the queue
\* then points into freed memory, which holds what the message held
kfree_msg(k, m) ==
    IF m \in k.pipe_queue[k.msg[m].pipe]
    THEN [k.msg[m] EXCEPT !.st = "free", !.count = 0]
    ELSE NoMsg

\* gss_release_msg
gss_release_msg(k, m) ==
    IF k.msg[m].count # 1
    THEN [k EXCEPT !.msg[m].count = @ - 1]
    ELSE LET k1 == put_pipe_version(k)
             k2 == IF k.msg[m].ctx # NULL
                   THEN gss_put_ctx(k1, k.msg[m].ctx)
                   ELSE k1
         IN  [k2 EXCEPT !.msg[m] = kfree_msg(k, m)]

\* the release may have to take pipe_version_lock
CanReleaseMsg(m) ==
    msg[m].count # 1 \/ CanPutPipeVersion

\* a faulty search that takes a message of any uid
Linked_any(k, p, uid) ==
    k.in_downcall[p]

\* the entries of pipe->in_downcall with this uid
Linked(k, p, uid) ==
    {m \in k.in_downcall[p] : k.msg[m].uid = uid}

\* a faulty __gss_find_upcall that finds nothing
gss_find_upcall_none(k, p, uid) ==
    [k |-> k, pos |-> NULL]

\* __gss_find_upcall: the first entry with this uid, with a reference taken
gss_find_upcall(k, p, uid) ==
    IF Linked(k, p, uid) = {}
    THEN [k |-> k, pos |-> NULL]
    ELSE LET pos == Min(Linked(k, p, uid))
         IN  [k |-> [k EXCEPT !.msg[pos].count = @ + 1], pos |-> pos]

\* a faulty gss_add_msg that links the new message without looking for one
\* of the same uid
gss_add_msg_always(k, m) ==
    [k |-> [k EXCEPT !.msg[m].count = @ + 1,
                     !.in_downcall[k.msg[m].pipe] = @ \cup {m}],
     msg |-> m]

\* gss_add_msg
gss_add_msg(k, m) ==
    LET p == k.msg[m].pipe
        old == gss_find_upcall(k, p, k.msg[m].uid)
    IN  IF old.pos = NULL
        THEN [k |-> [k EXCEPT !.msg[m].count = @ + 1,
                              !.in_downcall[p] = @ \cup {m}],
              msg |-> m]
        ELSE [k |-> old.k, msg |-> old.pos]

\* a faulty __gss_unhash_msg that wakes nobody
gss_unhash_msg_locked_nowake(k, m) ==
    [k EXCEPT !.in_downcall[k.msg[m].pipe] = @ \ {m},
              !.msg[m].count = @ - 1]

\* a faulty __gss_unhash_msg that keeps the reference of the list
gss_unhash_msg_locked_keep(k, m) ==
    LET k1 == [k EXCEPT !.in_downcall[k.msg[m].pipe] = @ \ {m}]
        k2 == rpc_wake_up_status(k1, m, k.msg[m].errno)
    IN  wake_up_all(k2, m)

\* __gss_unhash_msg
gss_unhash_msg_locked(k, m) ==
    LET k1 == [k EXCEPT !.in_downcall[k.msg[m].pipe] = @ \ {m}]
        k2 == rpc_wake_up_status(k1, m, k.msg[m].errno)
        k3 == wake_up_all(k2, m)
    IN  [k3 EXCEPT !.msg[m].count = @ - 1]

\* gss_unhash_msg
gss_unhash_msg(k, m) ==
    IF m \notin k.in_downcall[k.msg[m].pipe]
    THEN k
    ELSE gss_unhash_msg_locked(k, m)

\* a faulty gss_handle_downcall_result that never marks the credential
\* negative
gss_handle_downcall_result_no_negative(k, c, m) ==
    LET e == k.msg[m].errno
        k1 == IF e = 0 /\ k.msg[m].ctx # NULL
              THEN gss_cred_set_ctx(
                       [k EXCEPT !.cred[c].cr_flags = @ \ {"NEGATIVE"}],
                       c, k.msg[m].ctx)
              ELSE k
        k2 == [k1 EXCEPT !.cred[c].gc_upcall_timestamp = now,
                         !.cred[c].gc_upcall = NULL]
    IN  rpc_wake_up_status(k2, m, e)

\* a faulty gss_handle_downcall_result that marks the credential negative on
\* every error
gss_handle_downcall_result_negative_any(k, c, m) ==
    LET e == k.msg[m].errno
        k1 == IF e = 0 /\ k.msg[m].ctx # NULL
              THEN gss_cred_set_ctx(
                       [k EXCEPT !.cred[c].cr_flags = @ \ {"NEGATIVE"}],
                       c, k.msg[m].ctx)
              ELSE IF e < 0
              THEN [k EXCEPT !.cred[c].cr_flags = @ \cup {"NEGATIVE"}]
              ELSE k
        k2 == [k1 EXCEPT !.cred[c].gc_upcall_timestamp = now,
                         !.cred[c].gc_upcall = NULL]
    IN  rpc_wake_up_status(k2, m, e)

\* a faulty gss_handle_downcall_result that marks the credential up to date
\* on an error other than key-expired
gss_handle_downcall_result_uptodate(k, c, m) ==
    LET e == k.msg[m].errno
        k1 == IF e = 0 /\ k.msg[m].ctx # NULL
              THEN gss_cred_set_ctx(
                       [k EXCEPT !.cred[c].cr_flags = @ \ {"NEGATIVE"}],
                       c, k.msg[m].ctx)
              ELSE IF e = -EKEYEXPIRED
              THEN [k EXCEPT !.cred[c].cr_flags = @ \cup {"NEGATIVE"}]
              ELSE [k EXCEPT !.cred[c].cr_flags = @ \cup {"UPTODATE"}]
        k2 == [k1 EXCEPT !.cred[c].gc_upcall_timestamp = now,
                         !.cred[c].gc_upcall = NULL]
    IN  rpc_wake_up_status(k2, m, e)

\* gss_handle_downcall_result
gss_handle_downcall_result(k, c, m) ==
    LET e == k.msg[m].errno
        k1 == IF e = 0 /\ k.msg[m].ctx # NULL
              THEN gss_cred_set_ctx(
                       [k EXCEPT !.cred[c].cr_flags = @ \ {"NEGATIVE"}],
                       c, k.msg[m].ctx)
              ELSE IF e = -EKEYEXPIRED
              THEN [k EXCEPT !.cred[c].cr_flags = @ \cup {"NEGATIVE"}]
              ELSE k
        k2 == [k1 EXCEPT !.cred[c].gc_upcall_timestamp = now,
                         !.cred[c].gc_upcall = NULL]
    IN  rpc_wake_up_status(k2, m, e)


(***************************************************************************)
(* Credentials.                                                            *)
(***************************************************************************)
\* the number of bits of an unsigned long, for jiffies and gc_expiry
JiffiesBits == 16

\* jiffies, the word that holds the time
jiffies(t) ==
    t % 2^JiffiesBits

\* a faulty time_after that compares the words
time_after_words(a, b) ==
    a > b

\* time_after(a, b): (long)(b) - (long)(a) < 0
time_after(a, b) ==
    ((b - a) % 2^JiffiesBits) >= 2^(JiffiesBits - 1)

\* gss_match; gc_ctx is read without a test, the caller's credential is in
\* the cache and, unless it is new, has a context
gss_match(k, acred, rc) ==
    LET by_name ==
            IF acred.principal # NoString
            THEN rc.gc_principal # NoString /\ acred.principal = rc.gc_principal
            ELSE rc.gc_principal = NoString /\ rc.cr_uid = acred.uid
    IN  IF "NEW" \in rc.cr_flags
        THEN by_name
        ELSE IF time_after(jiffies(now), k.ctx[rc.gc_ctx].gc_expiry)
        THEN FALSE
        ELSE IF "UPTODATE" \notin rc.cr_flags
        THEN FALSE
        ELSE by_name

\* a faulty gss_create_cred that takes no reference of the gss_auth
kref_get_none(k) == k

\* kref_get(&gss_auth->kref)
kref_get(k) ==
    [k EXCEPT !.auth.kref = @ + 1]

\* gss_create_cred, in the slot c of the pool, hashed by its caller
gss_create_cred(k, c, acred) ==
    [kref_get(k) EXCEPT !.cred[c] =
        [ st |-> "live", cr_uid |-> acred.uid,
          gc_principal |-> IF acred.machine_cred THEN acred.principal
                           ELSE NoString,
          cr_flags |-> {"NEW", "HASHED"}, gc_ctx |-> NULL, gc_upcall |-> NULL,
          gc_upcall_timestamp |-> 0, cr_ops |-> "gss_credops",
          cr_count |-> 1 ]]

\* gss_lookup_cred: rpcauth_lookup_credcache() returns a hashed credential
\* that gss_match accepts, with a reference, or creates and hashes one
gss_lookup_cred(k, acred) ==
    LET hits == {c \in Creds : /\ k.cred[c].st = "live"
                               /\ "HASHED" \in k.cred[c].cr_flags
                               /\ gss_match(k, acred, k.cred[c])}
        free == {c \in Creds : k.cred[c].st = "free"}
    IN  IF hits # {}
        THEN [k |-> [k EXCEPT !.cred[Min(hits)].cr_count = @ + 1],
              cred |-> Min(hits)]
        ELSE IF free = {}
        THEN [k |-> k, cred |-> NULL]
        ELSE [k |-> gss_create_cred(k, Min(free), acred), cred |-> Min(free)]

\* kref_put(&gss_auth->kref, gss_free_callback): the last reference calls
\* gss_free, which starts with gss_pipes_dentries_destroy
kref_put(k) ==
    IF k.auth.kref = 1
    THEN [k EXCEPT !.auth.kref = 0, !.auth.pc = "gss_free",
                   !.auth.op = "destroy_v0"]
    ELSE [k EXCEPT !.auth.kref = @ - 1]

\* gss_destroy_nullcred
gss_destroy_nullcred(k, c) ==
    LET x == k.cred[c].gc_ctx
        k1 == [k EXCEPT !.cred[c] = NoCred]
    IN  kref_put(IF x # NULL THEN gss_put_ctx(k1, x) ELSE k1)

\* a faulty gss_destroying_context that does not test RPCAUTH_CRED_UPTODATE
SendsDestroy_any(k, c) == k.cred[c].gc_ctx # NULL

\* whether gss_destroying_context sends the RPC_GSS_PROC_DESTROY call
SendsDestroy(k, c) ==
    k.cred[c].gc_ctx # NULL /\ "UPTODATE" \in k.cred[c].cr_flags

\* gss_destroying_context, when it sends the call: nt is the rpc_task that
\* rpc_call_null() starts, or NULL when it fails to start one
gss_destroying_context(k, c, nt) ==
    LET k1 == [k EXCEPT !.ctx[k.cred[c].gc_ctx].gc_proc = RPC_GSS_PROC_DESTROY,
                        !.cred[c].cr_ops = "gss_nullops",
                        !.cred[c].cr_count = @ + 1]
    IN  IF nt = NULL
        THEN gss_destroy_nullcred(k1, c)
        ELSE [k1 EXCEPT !.task[nt] =
                [IdleTask EXCEPT !.pc = "bound", !.mode = "null", !.cred = c]]

\* gss_destroy_cred
gss_destroy_cred(k, c, nt) ==
    IF SendsDestroy(k, c)
    THEN gss_destroying_context(k, c, nt)
    ELSE gss_destroy_nullcred(k, c)

\* cred->cr_ops->crdestroy
crdestroy(k, c, nt) ==
    IF k.cred[c].cr_ops = "gss_nullops"
    THEN gss_destroy_nullcred(k, c)
    ELSE gss_destroy_cred(k, c, nt)

\* put_rpccred: the last reference of a hashed, up to date credential leaves
\* it in the cache; of any other it unhashes and destroys it
put_rpccred(k, c, nt) ==
    IF k.cred[c].cr_count # 1
    THEN [k EXCEPT !.cred[c].cr_count = @ - 1]
    ELSE IF {"HASHED", "UPTODATE"} \subseteq k.cred[c].cr_flags
    THEN [k EXCEPT !.cred[c].cr_count = 0]
    ELSE crdestroy([k EXCEPT !.cred[c].cr_count = 0,
                             !.cred[c].cr_flags = @ \ {"HASHED"}], c, nt)

\* the rpc_task slots rpc_call_null() may use: none (it fails), or the first
\* that is idle
NullTasks(k) ==
    LET idle == {t \in Tasks : k.task[t].pc = "idle"}
    IN  {NULL} \cup (IF idle = {} THEN {} ELSE {Min(idle)})

\* whether releasing a reference of c destroys it and sends the destroy call
PutSendsDestroy(k, c) ==
    /\ k.cred[c].cr_count = 1
    /\ k.cred[c].cr_ops = "gss_credops"
    /\ "HASHED" \notin k.cred[c].cr_flags
    /\ SendsDestroy(k, c)

\* the choices of nt that make a difference to put_rpccred(k, c, nt)
PutChoices(k, c) ==
    IF PutSendsDestroy(k, c) THEN NullTasks(k) ELSE {NULL}


(***************************************************************************)
(* The requesters.  A task is an rpc_task, or a thread inside a credential *)
(* lookup; its pc is the place of the source it is at.                      *)
(***************************************************************************)
EnvUnchanged ==
    UNCHANGED << now, gssd_running, pipe_open, daemon >>

\* the caller's side of rpcauth_lookup_credcache(): an asynchronous rpc_task
\* binds with RPCAUTH_LOOKUP_NEW, any other caller initialises a new
\* credential through cr_init = gss_cred_init before the lookup returns
LookupCred(t, acred, lookup_new) ==
    /\ task[t].pc = "idle"
    /\  LET r == gss_lookup_cred(K, acred)
        IN  /\ r.cred # NULL
            /\ Commit([r.k EXCEPT !.task[t] =
                    IF "NEW" \in r.k.cred[r.cred].cr_flags /\ ~lookup_new
                    THEN [IdleTask EXCEPT !.pc = "alloc", !.mode = "sync",
                                          !.cred = r.cred]
                    ELSE [IdleTask EXCEPT !.pc = "bound", !.cred = r.cred]])
    /\ EnvUnchanged

\* a faulty gss_cred_is_negative_entry whose window never closes
gss_cred_is_negative_entry_forever(rc) ==
    /\ "NEGATIVE" \in rc.cr_flags
    /\ rc.gc_upcall_timestamp <= now

\* gss_cred_is_negative_entry
gss_cred_is_negative_entry(rc) ==
    /\ "NEGATIVE" \in rc.cr_flags
    /\ rc.gc_upcall_timestamp <= now
    /\ now < rc.gc_upcall_timestamp + RetryDelay

\* function fn hands the value e to the RPC engine or to the lookup
Returns(k, t, f, e) ==
    [k EXCEPT !.task[t].pc = "ret", !.task[t].fn = f, !.task[t].err = e,
              !.task[t].gss_new = NULL, !.task[t].gss_msg = NULL,
              !.task[t].wq = NULL, !.task[t].cb = FALSE]

\* gss_renew_cred
gss_renew_cred(k, t) ==
    LET old == k.task[t].cred
        acred == [ uid |-> k.cred[old].cr_uid,
                   principal |-> k.cred[old].gc_principal,
                   machine_cred |-> k.cred[old].gc_principal # NoString ]
        r == gss_lookup_cred(k, acred)
    IN  IF r.cred = NULL
        THEN [k |-> k, ret |-> -ENOMEM]
        ELSE [k |-> put_rpccred([r.k EXCEPT !.task[t].cred = r.cred], old, NULL),
              ret |-> 0]

\* the function a task in the upcall path returns from
UpcallFn(k, t) ==
    IF k.task[t].mode = "sync" THEN "gss_create_upcall" ELSE "gss_refresh"

\* gss_refresh: the negative-entry test and the renewal of a credential
\* that is neither NEW nor UPTODATE
gss_refresh(t) ==
    /\ task[t].pc = "bound"
    /\ cred[task[t].cred].cr_ops = "gss_credops"
    /\ LET c == task[t].cred
           k0 == [K EXCEPT !.task[t].mode = "async", !.task[t].err = 0]
       IN  IF gss_cred_is_negative_entry(cred[c])
           THEN Commit(Returns(k0, t, "gss_refresh", -EKEYEXPIRED))
           ELSE LET r == IF cred[c].cr_flags \cap {"NEW", "UPTODATE"} = {}
                         THEN gss_renew_cred(k0, t)
                         ELSE [k |-> k0, ret |-> 0]
                IN  IF r.ret < 0
                    THEN Commit(Returns(r.k, t, "gss_refresh", r.ret))
                    ELSE Commit([r.k EXCEPT !.task[t].pc = "test_new"])
    /\ EnvUnchanged

\* gss_refresh: if (test_bit(RPCAUTH_CRED_NEW, ...)) ret = gss_refresh_upcall
gss_refresh_test_new(t) ==
    /\ task[t].pc = "test_new"
    /\ IF "NEW" \in cred[task[t].cred].cr_flags
       THEN Commit([K EXCEPT !.task[t].pc = "alloc"])
       ELSE Commit(Returns(K, t, "gss_refresh", 0))
    /\ EnvUnchanged

\* a faulty gss_refresh_null that reports the credential as refreshed
gss_refresh_null_ok(t) ==
    /\ task[t].pc = "bound"
    /\ cred[task[t].cred].cr_ops = "gss_nullops"
    /\ Commit(Returns(K, t, "gss_refresh_null", 0))
    /\ EnvUnchanged

\* gss_refresh_null
gss_refresh_null(t) ==
    /\ task[t].pc = "bound"
    /\ cred[task[t].cred].cr_ops = "gss_nullops"
    /\ Commit(Returns(K, t, "gss_refresh_null", -EACCES))
    /\ EnvUnchanged

\* what the callers of gss_setup_upcall do with an error from it:
\* gss_refresh_upcall queues the task on pipe_version_rpc_waitqueue and
\* returns -EAGAIN, gss_create_upcall waits on pipe_version_waitqueue
SetupError(k, t, e) ==
    IF e = -EAGAIN
    THEN [k EXCEPT !.task[t].pc = IF k.task[t].mode = "sync" THEN "pv_wait"
                                  ELSE "sleep_pv",
                   !.task[t].fn = UpcallFn(k, t),
                   !.task[t].err = -EAGAIN,
                   !.task[t].gss_new = NULL]
    ELSE Returns(k, t, UpcallFn(k, t), e)

\* gss_alloc_msg, with get_pipe_version and gss_encode_msg
gss_alloc_msg(t) ==
    /\ task[t].pc = "alloc"
    /\ pipe_version_lock = "free"
    /\ LET free == {m \in Msgs : msg[m].st = "free"}
           c == task[t].cred
       IN  IF free = {}
           THEN Commit(SetupError(K, t, -ENOMEM))
           ELSE IF pipe_version < 0
           THEN Commit(SetupError(K, t, -EAGAIN))
           ELSE Commit([K EXCEPT
                    !.pipe_users = @ + 1,
                    !.msg[Min(free)] =
                        [ st |-> "live", count |-> 1, uid |-> cred[c].cr_uid,
                          pipe |-> pipe_version, ctx |-> NULL, errno |-> 0,
                          service_name |-> cred[c].gc_principal,
                          vers |-> pipe_version,
                          msg_list |-> "zero" ],
                    !.task[t].gss_new = Min(free),
                    !.task[t].err = 0,
                    !.task[t].pc = "add"])
    /\ EnvUnchanged

\* gss_setup_upcall: gss_add_msg, and the release of the new message when an
\* upcall of this uid is in flight already
gss_setup_upcall_add(t) ==
    /\ task[t].pc = "add"
    /\ LET new == task[t].gss_new
           r == gss_add_msg(K, new)
       IN  IF r.msg = new
           THEN Commit([r.k EXCEPT !.task[t].pc = "queue"])
           ELSE /\ CanReleaseMsg(new)
                /\ Commit([gss_release_msg(r.k, new) EXCEPT
                        !.task[t].gss_new = NULL,
                        !.task[t].gss_msg = r.msg,
                        !.task[t].pc = "attach"])
    /\ EnvUnchanged

\* gss_setup_upcall: rpc_queue_upcall, which queues the message for the
\* daemon to read or fails with -EPIPE
gss_setup_upcall_queue(t, res) ==
    /\ task[t].pc = "queue"
    /\ LET new == task[t].gss_new
       IN  IF res = 0
           THEN Commit([K EXCEPT !.pipe_queue[msg[new].pipe] = @ \cup {new},
                                 !.msg[new].msg_list = "queued",
                                 !.task[t].gss_new = NULL,
                                 !.task[t].gss_msg = new,
                                 !.task[t].pc = "attach"])
           ELSE Commit(SetupError(gss_unhash_msg(K, new), t, res))
    /\ EnvUnchanged

\* gss_refresh_upcall, from its spin_lock(&pipe->lock) to its return
gss_refresh_upcall(t) ==
    /\ task[t].pc = "attach"
    /\ task[t].mode # "sync"
    /\ CanReleaseMsg(task[t].gss_msg)
    /\ LET c == task[t].cred
           m == task[t].gss_msg
           sleep(k, q, cb) ==
               [k EXCEPT !.task[t].pc = "sleep_msg", !.task[t].wq = q,
                         !.task[t].cb = cb, !.task[t].fn = "gss_refresh",
                         !.task[t].err = 0,
                         !.task[t].gss_msg = NULL]
       IN  IF cred[c].gc_upcall # NULL
           THEN Commit(sleep(gss_release_msg(K, m), cred[c].gc_upcall, FALSE))
           ELSE IF msg[m].ctx = NULL /\ msg[m].errno >= 0
           THEN Commit(sleep(
                    gss_release_msg([K EXCEPT !.cred[c].gc_upcall = m,
                                              !.msg[m].count = @ + 1], m),
                    m, TRUE))
           ELSE Commit(Returns(
                    gss_release_msg(gss_handle_downcall_result(K, c, m), m),
                    t, "gss_refresh", msg[m].errno))
    /\ EnvUnchanged

\* gss_upcall_callback
gss_upcall_callback(t) ==
    /\ task[t].pc = "woken"
    /\ task[t].cb
    /\ LET c == task[t].cred
           m == cred[c].gc_upcall
       IN  /\ CanReleaseMsg(m)
           /\ Commit(Returns(
                  gss_release_msg(gss_handle_downcall_result(K, c, m), m),
                  t, "gss_upcall_callback", msg[m].errno))
    /\ EnvUnchanged

\* the message whose result task t hands to gss_handle_downcall_result:
\* gss_msg in gss_refresh_upcall, gss_cred->gc_upcall in gss_upcall_callback
ResultMsg(t) ==
    IF task[t].gss_msg # NULL THEN task[t].gss_msg
    ELSE cred[task[t].cred].gc_upcall

\* gss_upcall_callback or gss_refresh_upcall is about to install a context:
\* the message carries one and the credential is RPCAUTH_CRED_NEW
Installs(t) ==
    /\ \/ task[t].pc = "woken" /\ task[t].cb
       \/ /\ task[t].pc = "attach" /\ task[t].mode # "sync"
          /\ cred[task[t].cred].gc_upcall = NULL
    /\ msg[ResultMsg(t)].errno = 0
    /\ msg[ResultMsg(t)].ctx # NULL
    /\ "NEW" \in cred[task[t].cred].cr_flags

\* the places of a task after each store of gss_cred_set_ctx
SetCtxPc == << "set_ctx_2", "set_ctx_3", "set_ctx_done" >>

\* gss_handle_downcall_result store by store, for the readers that run
\* beside it: spin_lock(&pipe->lock), clear_bit of RPCAUTH_CRED_NEGATIVE
\* and the first store of gss_cred_set_ctx (i = 1), then its second and
\* third store
gss_cred_set_ctx_step(t, i) ==
    /\ IF i = 1 THEN Installs(t) ELSE task[t].pc = SetCtxPc[i - 1]
    /\ LET c == task[t].cred
           x == msg[ResultMsg(t)].ctx
           k1 == IF i = 1
                 THEN [K EXCEPT !.cred[c].cr_flags = @ \ {"NEGATIVE"}]
                 ELSE K
       IN  Commit([gss_cred_set_ctx_store(k1, c, x, gss_cred_set_ctx_order[i])
                       EXCEPT !.task[t].pc = SetCtxPc[i]])
    /\ EnvUnchanged

\* the rest of gss_handle_downcall_result and of its caller,
\* gss_upcall_callback or gss_refresh_upcall
gss_upcall_callback_rest(t) ==
    /\ task[t].pc = "set_ctx_done"
    /\ LET c == task[t].cred
           m == ResultMsg(t)
           k2 == [K EXCEPT !.cred[c].gc_upcall_timestamp = now,
                           !.cred[c].gc_upcall = NULL]
       IN  /\ CanReleaseMsg(m)
           /\ Commit(Returns(
                  gss_release_msg(rpc_wake_up_status(k2, m, msg[m].errno), m),
                  t, IF task[t].gss_msg # NULL THEN "gss_refresh"
                     ELSE "gss_upcall_callback", msg[m].errno))
    /\ EnvUnchanged

\* a gss_upcall_callback between its stores holds pipe->lock
PipeLocked ==
    \E t \in Tasks : task[t].pc \in {"set_ctx_2", "set_ctx_3", "set_ctx_done"}

\* a task woken from a queue it slept on without a callback goes back to the
\* RPC engine with the status of the wake-up
RpcWokenNoCallback(t) ==
    /\ task[t].pc = "woken"
    /\ ~task[t].cb
    /\ Commit(Returns(K, t, "rpc_wake_up_status", task[t].err))
    /\ EnvUnchanged

\* the 15 s tk_timeout of a task queued on pipe_version_rpc_waitqueue
RpcPipeVersionTimeout(t) ==
    /\ task[t].pc = "sleep_pv"
    /\ Commit(Returns(K, t, "gss_refresh", -EAGAIN))
    /\ EnvUnchanged

\* gss_create_upcall: wait_event_interruptible_timeout() on
\* pipe_version_waitqueue;
\* it hands back what is left of the timeout (written 1) once
\* sn->pipe_version >= 0 holds, 0 when the timeout has run out with the
\* condition false, -ERESTARTSYS for a signal while the condition is false
gss_create_upcall_wait(t, how) ==
    /\ task[t].pc = "pv_wait"
    /\ \/ how = "woken" /\ pipe_version >= 0
       \/ how \in {"timeout", "signal"} /\ pipe_version < 0
    /\ Commit([K EXCEPT !.task[t].pc = "pv_test",
                        !.task[t].err = IF how = "woken" THEN 1
                                        ELSE IF how = "timeout" THEN 0
                                        ELSE -ERESTARTSYS])
    /\ EnvUnchanged

\* a faulty gss_create_upcall that leaves gssd_running alone
gssd_running_after_wait_kept(err, version, running) == running

\* if (sn->pipe_version < 0) { if (err == 0) sn->gssd_running = 0; ...
gssd_running_after_wait(err, version, running) ==
    IF version < 0 /\ err = 0 THEN FALSE ELSE running

\* gss_create_upcall: the test of sn->pipe_version that follows the wait,
\* and the return or the goto retry
gss_create_upcall_retry(t) ==
    /\ task[t].pc = "pv_test"
    /\ IF pipe_version < 0
       THEN Commit(Returns(K, t, "gss_create_upcall", -EACCES))
       ELSE IF task[t].err < 0
       THEN Commit(Returns(K, t, "gss_create_upcall", task[t].err))
       ELSE Commit([K EXCEPT !.task[t].pc = "alloc", !.task[t].err = 0])
    /\ gssd_running' =
           gssd_running_after_wait(task[t].err, pipe_version, gssd_running)
    /\ UNCHANGED << now, pipe_open, daemon >>

\* gss_create_upcall: the wait loop finds the message completed
gss_create_upcall(t) ==
    /\ task[t].pc = "attach"
    /\ task[t].mode = "sync"
    /\ LET c == task[t].cred
           m == task[t].gss_msg
       IN  /\ msg[m].ctx # NULL \/ msg[m].errno < 0
           /\ CanReleaseMsg(m)
           /\ IF msg[m].ctx # NULL
              THEN Commit(Returns(
                       gss_release_msg(gss_cred_set_ctx(K, c, msg[m].ctx), m),
                       t, "gss_create_upcall", 0))
              ELSE Commit(Returns(gss_release_msg(K, m), t,
                                  "gss_create_upcall", msg[m].errno))
    /\ EnvUnchanged

\* gss_create_upcall: the wait loop finds the message not completed and no
\* fatal signal pending, and the thread, which prepare_to_wait has put on
\* gss_msg->waitqueue, sleeps in schedule()
gss_create_upcall_schedule(t) ==
    /\ task[t].pc = "attach"
    /\ task[t].mode = "sync"
    /\ LET m == task[t].gss_msg
       IN  /\ msg[m].ctx = NULL /\ msg[m].errno >= 0
           /\ Commit([K EXCEPT !.task[t].pc = "wait_msg", !.task[t].wq = m])
    /\ EnvUnchanged

\* a faulty out_intr that takes the message off the in_downcall list
gss_create_upcall_out_intr_unhash(k, m) ==
    gss_release_msg(gss_unhash_msg(k, m), m)

\* gss_create_upcall, out_intr: finish_wait() and gss_release_msg()
gss_create_upcall_out_intr(k, m) == gss_release_msg(k, m)

\* gss_create_upcall: a fatal signal arrives before the message completes;
\* it wakes the thread if it sleeps, and the loop finds the signal pending
gss_create_upcall_intr(t) ==
    /\ task[t].pc \in {"attach", "wait_msg"}
    /\ task[t].mode = "sync"
    /\ LET m == task[t].gss_msg
       IN  /\ msg[m].ctx = NULL /\ msg[m].errno >= 0
           /\ CanReleaseMsg(m)
           /\ Commit(Returns(
                  gss_create_upcall_out_intr([K EXCEPT !.task[t].wq = NULL], m),
                  t, "gss_create_upcall", -ERESTARTSYS))
    /\ EnvUnchanged

\* the caller takes the result: gss_cred_init retries on -EAGAIN and the
\* lookup drops a credential it could not initialise; the RPC engine keeps
\* the credential bound
TakeResult(t) ==
    /\ task[t].pc = "ret"
    /\ LET c == task[t].cred
       IN  IF task[t].mode # "sync"
           THEN Commit([K EXCEPT !.task[t].pc = "bound", !.task[t].err = 0,
                                 !.task[t].fn = "none",
                                 !.task[t].mode = IF @ = "null" THEN "null"
                                                  ELSE "none"])
           ELSE IF task[t].err = -EAGAIN
           THEN Commit([K EXCEPT !.task[t].pc = "alloc", !.task[t].err = 0])
           ELSE IF task[t].err < 0
           THEN \E nt \in PutChoices(K, c) :
                    Commit(put_rpccred([K EXCEPT !.task[t] = IdleTask], c, nt))
           ELSE Commit([K EXCEPT !.task[t].pc = "bound", !.task[t].err = 0,
                                 !.task[t].fn = "none", !.task[t].mode = "none"])
    /\ EnvUnchanged

\* the task ends: rpc_release_task drops the credential
PutCred(t) ==
    /\ task[t].pc = "bound"
    /\ \E nt \in PutChoices(K, task[t].cred) :
           Commit(put_rpccred([K EXCEPT !.task[t] = IdleTask], task[t].cred, nt))
    /\ EnvUnchanged

\* the credential cache drops a credential (rpcauth_clear_credcache, the
\* shrinker): it unhashes it, and destroys it when nothing else holds it
CacheEvict(c) ==
    /\ cred[c].st = "live"
    /\ "HASHED" \in cred[c].cr_flags
    /\ LET k1 == [K EXCEPT !.cred[c].cr_flags = @ \ {"HASHED"},
                           !.cred[c].cr_count = @ + 1]
       IN  \E nt \in PutChoices(k1, c) : Commit(put_rpccred(k1, c, nt))
    /\ EnvUnchanged

(***************************************************************************)
(* The life of the gss_auth.  rpc_mkpipe_dentry() and rpc_unlink() make    *)
(* and remove one entry of the client's pipefs directory each, and a       *)
(* reader of the directory may look between any two of them.               *)
(***************************************************************************)
\* gss_destroy begins: rpcauth_destroy_credcache() clears the cache
gss_destroy ==
    /\ auth.pc = "live"
    /\ auth.op = "none"
    /\ Commit([K EXCEPT !.auth.pc = "gss_destroy"])
    /\ EnvUnchanged

\* gss_destroy: rpcauth_destroy_credcache() drops the credential c
gss_destroy_credcache(c) ==
    /\ auth.pc = "gss_destroy"
    /\ CacheEvict(c)

\* gss_destroy, the cache cleared: it puts the reference gss_create took
gss_destroy_kref_put ==
    /\ auth.pc = "gss_destroy"
    /\ \A c \in Creds : "HASHED" \notin cred[c].cr_flags
    /\ Commit(kref_put([K EXCEPT !.auth.pc = "destroyed"]))
    /\ EnvUnchanged

\* gss_pipes_dentries_destroy: rpc_unlink(gss_auth->pipe[0]->dentry)
gss_pipes_dentries_destroy_v0 ==
    /\ auth.op = "destroy_v0"
    /\ Commit([K EXCEPT !.auth.dentry[0] = FALSE, !.auth.op = "destroy_v1"])
    /\ EnvUnchanged

\* gss_pipes_dentries_destroy: rpc_unlink(gss_auth->pipe[1]->dentry)
gss_pipes_dentries_destroy_v1 ==
    /\ auth.op = "destroy_v1"
    /\ Commit([K EXCEPT !.auth.dentry[1] = FALSE, !.auth.op = "none"])
    /\ EnvUnchanged

\* the end of gss_free, and of the error path of gss_create from
\* err_destroy_pipe_0 on: the pipe data is destroyed and the gss_auth freed
gss_free ==
    /\ auth.pc \in {"gss_free", "err_unlink_pipes"}
    /\ auth.op = "none"
    /\ Commit([K EXCEPT !.auth.pc = "freed", !.auth.frees = @ + 1])
    /\ EnvUnchanged

\* gss_create as far as gss_pipes_dentries_create_net: kref_init and both
\* rpc_mkpipe_data() have succeeded (a failure before leaves no trace)
gss_create ==
    /\ auth.pc = "freed"
    /\ Commit([K EXCEPT !.auth = [NewAuth EXCEPT !.pc = "gss_create",
                   !.op = "create_v1", !.dentry = [p \in Pipes |-> FALSE]]])
    /\ EnvUnchanged

\* a faulty gss_pipes_dentries_create that makes the old pipe first
gss_pipes_dentries_create_order_old_first == << 0, 1 >>

\* the order of the two rpc_mkpipe_dentry() of gss_pipes_dentries_create
gss_pipes_dentries_create_order == << 1, 0 >>

\* gss_pipes_dentries_create, the first rpc_mkpipe_dentry(): "gssd"
gss_pipes_dentries_create_first(ok) ==
    /\ auth.op = "create_v1"
    /\ Commit(IF ok
              THEN [K EXCEPT
                      !.auth.dentry[gss_pipes_dentries_create_order[1]] = TRUE,
                      !.auth.op = "create_v0"]
              ELSE [K EXCEPT !.auth.op = "none", !.auth.err = -ENOMEM])
    /\ EnvUnchanged

\* gss_pipes_dentries_create, the second rpc_mkpipe_dentry(): the name of the
\* mechanism; err_unlink_pipe_1 removes the first entry when it fails
gss_pipes_dentries_create_second(ok) ==
    /\ auth.op = "create_v0"
    /\ Commit(IF ok
              THEN [K EXCEPT
                      !.auth.dentry[gss_pipes_dentries_create_order[2]] = TRUE,
                      !.auth.op = "none", !.auth.err = 0]
              ELSE [K EXCEPT
                      !.auth.dentry[gss_pipes_dentries_create_order[1]] = FALSE,
                      !.auth.op = "none", !.auth.err = -ENOMEM])
    /\ EnvUnchanged

\* gss_create after gss_pipes_dentries_create_net: err_destroy_pipe_0 when it
\* failed, else rpcauth_init_credcache(), and err_unlink_pipes when that fails
gss_create_credcache(ok) ==
    /\ auth.pc = "gss_create"
    /\ auth.op = "none"
    /\ Commit(IF auth.err < 0
              THEN [K EXCEPT !.auth.pc = "freed", !.auth.frees = @ + 1]
              ELSE IF ok
              THEN [K EXCEPT !.auth.pc = "live"]
              ELSE [K EXCEPT !.auth.pc = "err_unlink_pipes",
                             !.auth.op = "destroy_v0"])
    /\ EnvUnchanged

(***************************************************************************)
(* The downcall: what gssd writes to the pipe, and how it is parsed.       *)
(* A buffer is a sequence of 32-bit words, each written as the int it     *)
(* holds (so the uid_t -1 and the errno words are negative numbers); a     *)
(* pointer into the buffer is a byte offset and ERR_PTR(e) is the record   *)
(* with err = e.                                                           *)
(***************************************************************************)
\* (uid_t) -1, the uid that uid_valid() refuses
INVALID_UID == -1

\* the messages gssd writes, for a uid: a context with the given lifetime,
\* the two error replies, and two truncated ones
DowncallsOf(uid) ==
    { << uid, 0, 1, 4, 7, 4, 9 >>,
      << uid, 1, 1, 4, 7, 4, 9 >>,
      << uid, 0, 0, -EKEYEXPIRED >>,
      << uid, 0, 0, -ENOENT >>,
      << uid, 0 >>,
      << uid, 1, 1, 8, 7 >> }

DowncallBufs ==
    DowncallsOf(1000) \cup DowncallsOf(0) \cup { << >>, << INVALID_UID >> }

\* what write() passes: the buffer, and mlen (one write is longer than
\* MSG_BUF_MAXSIZE)
DowncallInputs ==
    { [buf |-> b, mlen |-> 4 * Len(b)] : b \in DowncallBufs }
        \cup { [buf |-> [i \in 1..(MSG_BUF_MAXSIZE \div 4 + 1) |-> 0],
                 mlen |-> MSG_BUF_MAXSIZE + 4] }

\* simple_get_bytes, for the 4-byte reads of the source
simple_get_bytes(buf, p, end, len) ==
    LET q == p + len
    IN  IF q > end \/ q < p
        THEN [err |-> -EFAULT, p |-> p, res |-> 0]
        ELSE [err |-> 0, p |-> q, res |-> buf[(p \div 4) + 1]]

\* simple_get_netobj; kmemdup_ok is whether kmemdup() finds memory
simple_get_netobj(buf, p0, end, kmemdup_ok) ==
    LET r == simple_get_bytes(buf, p0, end, 4)
        len == r.res
        q == r.p + len
    IN  IF r.err < 0
        THEN [err |-> r.err, p |-> p0, dest |-> 0]
        ELSE IF q > end \/ q < r.p
        THEN [err |-> -EFAULT, p |-> r.p, dest |-> 0]
        ELSE IF ~kmemdup_ok
        THEN [err |-> -ENOMEM, p |-> r.p, dest |-> 0]
        ELSE [err |-> 0, p |-> q,
              dest |-> IF len = 0 THEN 0 ELSE buf[(r.p \div 4) + 1]]

\* gss_fill_context: x is the context as allocated, import_ret what
\* gss_import_sec_context returns; the result has the context as filled
gss_fill_context(buf, p0, end, x, kmemdup_ok, import_ret) ==
    LET \* F(v), with v evaluated once
        At(v, F(_)) == CHOOSE y \in {F(u) : u \in {v}} : TRUE
    IN
    At(simple_get_bytes(buf, p0, end, 4), LAMBDA t :
    IF t.err < 0 THEN [err |-> t.err, ctx |-> x] ELSE
    At([x EXCEPT !.gc_expiry =
            now + (IF t.res = 0 THEN GSSD_MIN_TIMEOUT ELSE t.res) * HZ],
       LAMBDA x1 :
    At(simple_get_bytes(buf, t.p, end, 4), LAMBDA w :
    IF w.err < 0 THEN [err |-> w.err, ctx |-> x1] ELSE
    At([x1 EXCEPT !.gc_win = w.res], LAMBDA x2 :
    IF w.res = 0
    THEN At(simple_get_bytes(buf, w.p, end, 4), LAMBDA e :
            [err |-> IF e.err < 0 THEN e.err
                     ELSE IF e.res = -EKEYEXPIRED THEN -EKEYEXPIRED
                     ELSE -EACCES,
             ctx |-> x2])
    ELSE
    At(simple_get_netobj(buf, w.p, end, kmemdup_ok), LAMBDA n :
    IF n.err < 0 THEN [err |-> n.err, ctx |-> x2] ELSE
    At([x2 EXCEPT !.gc_wire_ctx = n.dest], LAMBDA x3 :
    At(simple_get_bytes(buf, n.p, end, 4), LAMBDA s :
    IF s.err < 0 THEN [err |-> s.err, ctx |-> x3]
    ELSE IF s.p + s.res > end \/ s.p + s.res < s.p
    THEN [err |-> -EFAULT, ctx |-> x3]
    ELSE IF import_ret < 0 THEN [err |-> import_ret, ctx |-> x3]
    ELSE [err |-> 0,
          ctx |-> [x3 EXCEPT !.gc_gss_ctx = buf[(s.p \div 4) + 1]]])))))))

\* gss_alloc_context
gss_alloc_context ==
    [NoCtx EXCEPT !.st = "live", !.count = 1, !.gc_proc = RPC_GSS_PROC_DATA,
                  !.gc_seq = 1]

\* the errors gss_import_sec_context hands back (0 is success)
ImportResults == {0, -EFAULT, -ENOMEM, -EINVAL, -ENOSYS}

DaemonUnchanged ==
    UNCHANGED << now, gssd_running, pipe_open >>

\* gss_pipe_downcall, up to the spin_unlock that follows list_del_init
gss_pipe_downcall(p, in) ==
    /\ daemon.pc = "idle"
    /\ pipe_open[p]
    /\  LET id == simple_get_bytes(in.buf, 0, in.mlen, 4)
            free == {x \in Ctxs : ctx[x].st = "free"}
            x == Min(free)
            k1 == [K EXCEPT !.ctx[x] = gss_alloc_context]
            r == gss_find_upcall(k1, p, id.res)
            returns(e) == [IdleDaemon EXCEPT !.pipe = p, !.buf = in.buf,
                                             !.err = e]
            fails(e) == /\ daemon' = returns(e)
                        /\ Commit(K)
        IN  IF in.mlen > MSG_BUF_MAXSIZE THEN fails(-EFBIG)
            ELSE IF id.err < 0 THEN fails(id.err)
            ELSE IF id.res = INVALID_UID THEN fails(-EINVAL)
            ELSE IF free = {} THEN fails(-ENOMEM)
            ELSE IF r.pos = NULL
            THEN /\ daemon' = returns(-ENOENT)
                 /\ Commit(gss_put_ctx(k1, x))
            ELSE /\ daemon' = [ pc |-> "dc_fill", pipe |-> p, msg |-> r.pos,
                                ctx |-> x, buf |-> in.buf, err |-> -ENOENT ]
                 /\ Commit([r.k EXCEPT !.in_downcall[p] = @ \ {r.pos}])
    /\ DaemonUnchanged

\* gss_pipe_downcall: gss_fill_context and the switch on its error
gss_pipe_downcall_fill(kmemdup_ok, import_ret) ==
    /\ daemon.pc = "dc_fill"
    /\  LET m == daemon.msg
            x == daemon.ctx
            mlen == 4 * Len(daemon.buf)
        IN  \E r \in {gss_fill_context(daemon.buf, 4, mlen, ctx[x],
                                       kmemdup_ok, import_ret)} :
            LET k1 == [K EXCEPT !.ctx[x] = r.ctx]
            IN  IF r.err \in {-EACCES, -EKEYEXPIRED}
                THEN /\ Commit([k1 EXCEPT !.msg[m].errno = r.err])
                     /\ daemon' = [daemon EXCEPT !.pc = "dc_unhash",
                                                 !.err = mlen]
                ELSE IF r.err < 0
                THEN /\ Commit([k1 EXCEPT !.msg[m].errno = -EAGAIN])
                     /\ daemon' = [daemon EXCEPT !.pc = "dc_unhash",
                                                 !.err = r.err]
                ELSE /\ Commit([gss_get_ctx(k1, x) EXCEPT !.msg[m].ctx = x])
                     /\ daemon' = [daemon EXCEPT !.pc = "dc_unhash",
                                                 !.err = mlen]
    /\ DaemonUnchanged

\* gss_pipe_downcall: err_release_msg, __gss_unhash_msg under pipe->lock
gss_pipe_downcall_unhash ==
    /\ daemon.pc = "dc_unhash"
    /\ Commit(gss_unhash_msg_locked(K, daemon.msg))
    /\ daemon' = [daemon EXCEPT !.pc = "dc_release"]
    /\ DaemonUnchanged

\* gss_pipe_downcall: gss_release_msg, gss_put_ctx and the return
gss_pipe_downcall_release ==
    /\ daemon.pc = "dc_release"
    /\ CanReleaseMsg(daemon.msg)
    /\ Commit(gss_put_ctx(gss_release_msg(K, daemon.msg), daemon.ctx))
    /\ daemon' = IdleDaemon
    /\ DaemonUnchanged

(***************************************************************************)
(* Opening and closing the pipes, and the pipe layer's queue.              *)
(***************************************************************************)
\* a faulty gss_pipe_open that takes any version once one is set
gss_pipe_open_any(p) ==
    /\ daemon.pc = "idle"
    /\ ~pipe_open[p]
    /\ pipe_version_lock = "free"
    /\ gssd_running' = TRUE
    /\ IF pipe_version < 0
       THEN /\ Commit([K EXCEPT
                    !.pipe_version = p,
                    !.pipe_version_lock = "gss_pipe_open",
                    !.task = [t \in Tasks |->
                        IF task[t].pc = "sleep_pv"
                        THEN [task[t] EXCEPT !.pc = "ret"]
                        ELSE task[t]]])
            /\ daemon' = [IdleDaemon EXCEPT !.pc = "open_inc", !.pipe = p]
       ELSE /\ Commit([K EXCEPT !.pipe_version_lock = "gss_pipe_open"])
            /\ daemon' = [IdleDaemon EXCEPT !.pc = "open_inc", !.pipe = p]
    /\ UNCHANGED << now, pipe_open >>

\* gss_pipe_open, from spin_lock(&pipe_version_lock) to the test of the
\* version; rpc_pipe_open has noted that gssd runs
gss_pipe_open(p) ==
    /\ daemon.pc = "idle"
    /\ ~pipe_open[p]
    /\ pipe_version_lock = "free"
    /\ gssd_running' = TRUE
    /\ IF pipe_version < 0
       THEN /\ Commit([K EXCEPT
                    !.pipe_version = p,
                    !.pipe_version_lock = "gss_pipe_open",
                    !.task = [t \in Tasks |->
                        IF task[t].pc = "sleep_pv"
                        THEN [task[t] EXCEPT !.pc = "ret"]
                        ELSE task[t]]])
            /\ daemon' = [IdleDaemon EXCEPT !.pc = "open_inc", !.pipe = p]
       ELSE IF pipe_version # p
       THEN /\ Commit(K)
            /\ daemon' = [IdleDaemon EXCEPT !.err = -EBUSY, !.pipe = p]
       ELSE /\ Commit([K EXCEPT !.pipe_version_lock = "gss_pipe_open"])
            /\ daemon' = [IdleDaemon EXCEPT !.pc = "open_inc", !.pipe = p]
    /\ UNCHANGED << now, pipe_open >>

\* gss_pipe_open: atomic_inc(&sn->pipe_users) and the unlock
gss_pipe_open_inc ==
    /\ daemon.pc = "open_inc"
    /\ Commit([K EXCEPT !.pipe_users = @ + 1, !.pipe_version_lock = "free"])
    /\ pipe_open' = [pipe_open EXCEPT ![daemon.pipe] = TRUE]
    /\ daemon' = IdleDaemon
    /\ UNCHANGED << now, gssd_running >>

\* a faulty put_pipe_version that unlocks without resetting the version
put_pipe_version_noreset ==
    /\ pipe_version_lock = "put_pipe_version"
    /\ Commit([K EXCEPT !.pipe_version_lock = "free"])
    /\ UNCHANGED << now, gssd_running, pipe_open, daemon >>

\* put_pipe_version: the thread that brought pipe_users to zero resets the
\* version and unlocks
put_pipe_version_reset ==
    /\ pipe_version_lock = "put_pipe_version"
    /\ Commit([K EXCEPT !.pipe_version = -1, !.pipe_version_lock = "free"])
    /\ UNCHANGED << now, gssd_running, pipe_open, daemon >>

\* gss_pipe_destroy_msg
gss_pipe_destroy_msg(k, m) ==
    IF k.msg[m].errno < 0
    THEN gss_release_msg(gss_unhash_msg([k EXCEPT !.msg[m].count = @ + 1], m), m)
    ELSE k

\* rpc_purge_list on one queued message: it leaves the queue with the errno
\* and the pipe's destroy_msg runs
rpc_purge_msg(k, p, m, e) ==
    gss_pipe_destroy_msg([k EXCEPT !.pipe_queue[p] = @ \ {m},
                                   !.msg[m].msg_list = "empty",
                                   !.msg[m].errno = e], m)

\* The pipe layer dereferences a queued message that was freed.  The memory
\* either still holds what the message held, or it holds the message that
\* was allocated there since (the code then runs on as written), or the
\* access faults and the thread dies (oops).
Dangling(m) == msg[m].st = "free"

\* gssd reads a queued message: rpc_pipe_read takes it off the queue and
\* calls destroy_msg with the errno it has
rpc_pipe_read(p, oops) ==
    /\ daemon.pc = "idle"
    /\ pipe_open[p]
    /\ \E m \in pipe_queue[p] :
        IF oops
        THEN /\ Dangling(m)
             /\ Commit([K EXCEPT !.pipe_queue[p] = @ \ {m}])
             /\ daemon' = [IdleDaemon EXCEPT !.pc = "oops"]
        ELSE /\ CanPutPipeVersion
             /\ Commit(gss_pipe_destroy_msg(
                    [K EXCEPT !.pipe_queue[p] = @ \ {m},
                              !.msg[m].msg_list = "empty"], m))
             /\ UNCHANGED daemon
    /\ UNCHANGED << now, gssd_running, pipe_open >>

\* rpc_timeout_upcall_queue: nobody has the pipe open, the queued messages
\* time out
rpc_timeout_upcall_queue(p) ==
    /\ ~pipe_open[p]
    /\ ~(daemon.pc \in {"open_inc", "purge"} /\ daemon.pipe = p)
    /\ CanPutPipeVersion
    /\ \E m \in pipe_queue[p] : Commit(rpc_purge_msg(K, p, m, -ETIMEDOUT))
    /\ UNCHANGED << now, gssd_running, pipe_open, daemon >>

\* gssd closes the pipe: rpc_pipe_release
rpc_pipe_release(p) ==
    /\ daemon.pc = "idle"
    /\ pipe_open[p]
    /\ pipe_open' = [pipe_open EXCEPT ![p] = FALSE]
    /\ daemon' = [IdleDaemon EXCEPT !.pc = "purge", !.pipe = p]
    /\ Commit(K)
    /\ UNCHANGED << now, gssd_running >>

\* rpc_pipe_release: the last reader is gone, the queue is purged with
\* -EAGAIN, and release_pipe = gss_pipe_release is called
rpc_pipe_release_purge(oops) ==
    /\ daemon.pc = "purge"
    /\ IF pipe_queue[daemon.pipe] = {}
       THEN /\ ~oops
            /\ Commit(K)
            /\ daemon' = [daemon EXCEPT !.pc = "release"]
       ELSE \E m \in pipe_queue[daemon.pipe] :
            IF oops
            THEN /\ Dangling(m)
                 /\ Commit([K EXCEPT !.pipe_queue[daemon.pipe] = @ \ {m}])
                 /\ daemon' = [IdleDaemon EXCEPT !.pc = "oops"]
            ELSE /\ CanPutPipeVersion
                 /\ Commit(rpc_purge_msg(K, daemon.pipe, m, -EAGAIN))
                 /\ UNCHANGED daemon
    /\ DaemonUnchanged

\* gss_pipe_release: one round of the loop over pipe->in_downcall, up to
\* the spin_unlock; with no message left, put_pipe_version.  The loop skips
\* a message unless list_empty(&gss_msg->msg.list): that holds once the pipe
\* layer has taken the message off its queue with list_del_init, and not
\* for a message on the queue nor for one that was never queued, whose
\* msg.list is as kzalloc left it
gss_pipe_release ==
    /\ daemon.pc = "release"
    /\ LET p == daemon.pipe
           todo == {m \in in_downcall[p] : msg[m].msg_list = "empty"}
       IN  IF todo = {}
           THEN /\ CanPutPipeVersion
                /\ Commit(put_pipe_version(K))
                /\ daemon' = IdleDaemon
           ELSE \E m \in todo :
                /\ Commit(gss_unhash_msg_locked(
                       [K EXCEPT !.msg[m].errno = -EPIPE,
                                 !.msg[m].count = @ + 1], m))
                /\ daemon' = [daemon EXCEPT !.pc = "release_msg", !.msg = m]
    /\ DaemonUnchanged

\* gss_pipe_release: gss_release_msg(gss_msg); goto restart
gss_pipe_release_msg ==
    /\ daemon.pc = "release_msg"
    /\ CanReleaseMsg(daemon.msg)
    /\ Commit(gss_release_msg(K, daemon.msg))
    /\ daemon' = [daemon EXCEPT !.pc = "release", !.msg = NULL]
    /\ DaemonUnchanged

(***************************************************************************)
(* The per-call hooks.                                                     *)
(***************************************************************************)
Hooks == {"gss_marshal", "gss_validate", "gss_wrap_req", "gss_unwrap_resp"}

\* gss_cred_get_ctx: rcu_read_lock() and the read of gss_cred->gc_ctx; the
\* RPC engine calls a hook on a credential it has found up to date
gss_cred_get_ctx_read(t, h) ==
    /\ task[t].pc = "bound"
    /\ "UPTODATE" \in cred[task[t].cred].cr_flags
    /\  /\ h = "gss_marshal" =>
               ctx[cred[task[t].cred].gc_ctx].gc_seq <= MaxSeq
        /\ Commit([K EXCEPT !.task[t].pc = "get_ctx_rcu",
                            !.task[t].hook = h,
                            !.task[t].err = 0,
                            !.task[t].ctx = cred[task[t].cred].gc_ctx])
    /\ EnvUnchanged

\* a faulty gss_cred_get_ctx that hands out the context without gss_get_ctx
gss_cred_get_ctx_noref(k, x) == k

\* the reference a hook takes on the context it has read
gss_cred_get_ctx_ref(k, x) == gss_get_ctx(k, x)

\* rcu_read_unlock(): grace periods stop waiting for this reader
rcu_read_unlock(k, t) ==
    [k EXCEPT !.ctx = [x \in Ctxs |-> [k.ctx[x] EXCEPT !.gp = @ \ {t}]]]

\* gss_cred_get_ctx: gss_get_ctx and rcu_read_unlock()
gss_cred_get_ctx(t) ==
    /\ task[t].pc = "get_ctx_rcu"
    /\ task[t].ctx # NULL
    /\ Commit([rcu_read_unlock(gss_cred_get_ctx_ref(K, task[t].ctx), t) EXCEPT
            !.task[t].pc = IF task[t].hook = "gss_marshal"
                           THEN "seq_lock" ELSE "hook"])
    /\ EnvUnchanged

\* a faulty gss_marshal that reads gc_seq without waiting for gc_seq_lock
gc_seq_lock_ignored(x) == TRUE

\* spin_lock(&ctx->gc_seq_lock) succeeds
gc_seq_lock_free(x) == ctx[x].gc_seq_lock = NULL

\* gss_marshal: spin_lock(&ctx->gc_seq_lock) and the read of ctx->gc_seq
\* into req->rq_seqno
gss_marshal_seq_read(t) ==
    /\ task[t].pc = "seq_lock"
    /\ gc_seq_lock_free(task[t].ctx)
    /\ Commit([K EXCEPT !.ctx[task[t].ctx].gc_seq_lock = t,
                        !.task[t].rq_seqno = ctx[task[t].ctx].gc_seq,
                        !.task[t].pc = "seq_inc"])
    /\ EnvUnchanged

\* gss_marshal: the store of gc_seq++ and the unlock (gc_seq is a u32; the
\* model stops far below the value at which it wraps)
gss_marshal_seq_inc(t) ==
    /\ task[t].pc = "seq_inc"
    /\ Commit([K EXCEPT !.ctx[task[t].ctx].gc_seq = task[t].rq_seqno + 1,
                        !.ctx[task[t].ctx].gc_seq_lock = NULL,
                        !.task[t].pc = "hook"])
    /\ EnvUnchanged

\* what the mechanism hands back: gss_get_mic in gss_marshal and
\* gss_wrap_req_integ, gss_verify_mic in gss_validate and
\* gss_unwrap_resp_integ, gss_wrap and gss_unwrap in the privacy variants
MajStats == {"GSS_S_COMPLETE", "GSS_S_CONTEXT_EXPIRED", "GSS_S_FAILURE"}

\* gss_wrap_req and gss_unwrap_resp call the mechanism for a context of
\* RPC_GSS_PROC_DATA only (and for a service other than RPC_GSS_SVC_NONE,
\* which is the case of GSS_S_COMPLETE here)
MechCalled(h, x) ==
    h \in {"gss_marshal", "gss_validate"} \/ ctx[x].gc_proc = RPC_GSS_PROC_DATA

\* a faulty hook that fails the call whenever the context has expired
gss_hook_status_strict(h, maj_stat) ==
    IF maj_stat = "GSS_S_COMPLETE" THEN 0 ELSE -EIO

\* what the hook returns for a maj_stat: gss_marshal and gss_wrap_req go on
\* after GSS_S_CONTEXT_EXPIRED, gss_validate and gss_unwrap_resp fail.
\* gss_marshal and gss_validate return a pointer, NULL for failure; NULL is
\* written -EIO here, the status the other two return
gss_hook_status(h, maj_stat) ==
    IF maj_stat = "GSS_S_COMPLETE" THEN 0
    ELSE IF maj_stat = "GSS_S_CONTEXT_EXPIRED"
            /\ h \in {"gss_marshal", "gss_wrap_req"}
    THEN 0
    ELSE -EIO

\* a faulty hook that leaves RPCAUTH_CRED_UPTODATE set
gss_hook_clear_uptodate_never(k, c, maj_stat) == k

\* if (maj_stat == GSS_S_CONTEXT_EXPIRED)
\*         clear_bit(RPCAUTH_CRED_UPTODATE, &cred->cr_flags);
gss_hook_clear_uptodate(k, c, maj_stat) ==
    IF maj_stat = "GSS_S_CONTEXT_EXPIRED"
    THEN [k EXCEPT !.cred[c].cr_flags = @ \ {"UPTODATE"}]
    ELSE k

\* the hook calls the mechanism, which reports maj_stat, and tests it
gss_hook_mech(t, maj_stat) ==
    /\ task[t].pc = "hook"
    /\ ~MechCalled(task[t].hook, task[t].ctx) => maj_stat = "GSS_S_COMPLETE"
    /\ Commit([gss_hook_clear_uptodate(K, task[t].cred, maj_stat) EXCEPT
            !.task[t].pc = "hook_out", !.task[t].maj_stat = maj_stat])
    /\ EnvUnchanged

\* the rest of gss_marshal, gss_validate, gss_wrap_req or gss_unwrap_resp:
\* the context is put and the hook returns
gss_hook_put_ctx(t) ==
    /\ task[t].pc = "hook_out"
    /\ Commit([gss_put_ctx(K, task[t].ctx) EXCEPT
            !.task[t].pc = "bound", !.task[t].hook = "none",
            !.task[t].ctx = NULL, !.task[t].maj_stat = "none",
            !.task[t].err = gss_hook_status(task[t].hook, task[t].maj_stat)])
    /\ EnvUnchanged

\* gss_free_ctx_callback and gss_do_free_ctx, once the grace period is over
gss_do_free_ctx(x) ==
    /\ ctx[x].st = "rcu"
    /\ ctx[x].gp = {}
    /\ Commit([K EXCEPT !.ctx[x] = NoCtx])
    /\ EnvUnchanged

\* jiffies advance
Tick ==
    /\ now < MaxTime
    /\ now' = now + 1
    /\ UNCHANGED << pipe_version, pipe_users, pipe_version_lock, gssd_running,
                    pipe_open, in_downcall, pipe_queue, msg, ctx, cred, task,
                    daemon, auth, call >>

\* no call of a computing function is looked at
NoCall ==
    [ fn |-> "none" ]

\* the state of the kernel after gss_create
InitKernel ==
    /\ now = 0
    /\ pipe_version = -1
    /\ pipe_users = 0
    /\ pipe_version_lock = "free"
    /\ gssd_running = TRUE
    /\ pipe_open = [p \in Pipes |-> FALSE]
    /\ in_downcall = [p \in Pipes |-> {}]
    /\ pipe_queue = [p \in Pipes |-> {}]
    /\ msg = [m \in Msgs |-> NoMsg]
    /\ ctx = [x \in Ctxs |-> NoCtx]
    /\ cred = [c \in Creds |-> NoCred]
    /\ task = [t \in Tasks |-> IdleTask]
    /\ daemon = IdleDaemon
    /\ auth = NewAuth

Init ==
    /\ InitKernel
    /\ call = NoCall

(***************************************************************************)
(* gssd.  A daemon that keeps to the protocol answers the upcalls it has   *)
(* read; nothing in the kernel holds it to that.                           *)
(***************************************************************************)
\* the messages of a pipe that gssd has read and not answered: they are on
\* pipe->in_downcall, they have been queued, and they have left the queue
UpcallsRead(p) ==
    {m \in in_downcall[p] \ pipe_queue[p] : msg[m].msg_list = "empty"}

\* the writes, out of a set of them, that a gssd keeping to the protocol can
\* make: an answer to an upcall it has read, or a write that gss_pipe_downcall
\* refuses before it looks for a message
GssdAnswers(p, inputs) ==
    {in \in inputs :
        \/ in.mlen > MSG_BUF_MAXSIZE
        \/ in.buf = << >>
        \/ in.buf[1] = INVALID_UID
        \/ \E m \in UpcallsRead(p) : msg[m].uid = in.buf[1]}

(***************************************************************************)
(* What the environment does: the credentials looked up and the answers    *)
(* gssd writes.                                                            *)
(***************************************************************************)
\* the struct auth_cred of an ordinary user
User == [uid |-> 1000, principal |-> NoString, machine_cred |-> FALSE]

\* window 0 and the errno -EKEYEXPIRED
KeyExpired == [buf |-> << 1000, 0, 0, -EKEYEXPIRED >>, mlen |-> 16]
\* window 0 and another errno
Denied == [buf |-> << 1000, 0, 0, -ENOENT >>, mlen |-> 16]
\* the write ends after the timeout
Truncated == [buf |-> << 1000, 0 >>, mlen |-> 8]
\* a context: timeout 0 (GSSD_MIN_TIMEOUT applies), window 1, a 4-byte
\* handle and a 4-byte token
Context0 == [buf |-> << 1000, 0, 1, 4, 7, 4, 9 >>, mlen |-> 28]
\* the same with a timeout of one second
Context1 == [buf |-> << 1000, 1, 1, 4, 7, 4, 9 >>, mlen |-> 28]

(***************************************************************************)
(* Spec: one requester on the asynchronous (gss_refresh) and on the        *)
(* synchronous (gss_cred_init) path, gssd keeps the pipe open and answers  *)
(* with every kind of downcall.                                            *)
(***************************************************************************)
Next ==
    \/ \E n \in BOOLEAN : LookupCred(1, User, n)
    \/ gss_refresh(1)
    \/ gss_refresh_test_new(1)
    \/ gss_alloc_msg(1)
    \/ gss_setup_upcall_add(1)
    \/ gss_setup_upcall_queue(1, 0)
    \/ gss_refresh_upcall(1)
    \/ gss_upcall_callback(1)
    \/ RpcPipeVersionTimeout(1)
    \/ \E how \in {"woken", "timeout", "signal"} : gss_create_upcall_wait(1, how)
    \/ gss_create_upcall_retry(1)
    \/ gss_create_upcall(1)
    \/ gss_create_upcall_schedule(1)
    \/ gss_create_upcall_intr(1)
    \/ TakeResult(1)
    \/ PutCred(1)
    \/ gss_pipe_open(1)
    \/ gss_pipe_open_inc
    \/ rpc_pipe_read(1, FALSE)
    \/ \E in \in GssdAnswers(1, {KeyExpired, Denied, Truncated, Context0}) :
           gss_pipe_downcall(1, in)
    \/ \E ok \in BOOLEAN, ret \in ImportResults : gss_pipe_downcall_fill(ok, ret)
    \/ gss_pipe_downcall_unhash
    \/ gss_pipe_downcall_release
    \/ \E x \in Ctxs : gss_do_free_ctx(x)

Spec == Init /\ [][Next]_vars

(***************************************************************************)
(* SpecTime: one asynchronous requester and its per-call hook, with the    *)
(* clock running: contexts expire and the negative-entry window passes.    *)
(***************************************************************************)
NextTime ==
    \/ \E n \in BOOLEAN : LookupCred(1, User, n)
    \/ gss_create_upcall_wait(1, "woken")
    \/ gss_create_upcall_retry(1)
    \/ gss_create_upcall(1)
    \/ gss_create_upcall_schedule(1)
    \/ gss_refresh(1)
    \/ gss_refresh_test_new(1)
    \/ gss_alloc_msg(1)
    \/ gss_setup_upcall_add(1)
    \/ gss_setup_upcall_queue(1, 0)
    \/ gss_refresh_upcall(1)
    \/ gss_upcall_callback(1)
    \/ RpcPipeVersionTimeout(1)
    \/ TakeResult(1)
    \/ PutCred(1)
    \/ gss_cred_get_ctx_read(1, "gss_validate")
    \/ gss_cred_get_ctx(1)
    \/ \E maj_stat \in MajStats : gss_hook_mech(1, maj_stat)
    \/ gss_hook_put_ctx(1)
    \/ gss_pipe_open(1)
    \/ gss_pipe_open_inc
    \/ rpc_pipe_read(1, FALSE)
    \/ \E in \in GssdAnswers(1, {KeyExpired, Truncated, Context1}) :
           gss_pipe_downcall(1, in)
    \/ \E ok \in BOOLEAN, ret \in ImportResults : gss_pipe_downcall_fill(ok, ret)
    \/ gss_pipe_downcall_unhash
    \/ gss_pipe_downcall_release
    \/ \E x \in Ctxs : gss_do_free_ctx(x)
    \/ Tick

SpecTime == Init /\ [][NextTime]_vars

(***************************************************************************)
(* SpecPipe: one requester, on the asynchronous and on the synchronous     *)
(* path, while gssd opens, reads, answers and closes the pipes of both     *)
(* versions and the pipe layer times the queues out.                       *)
(***************************************************************************)
NextPipe ==
    \/ \E n \in BOOLEAN : LookupCred(1, User, n)
    \/ \E how \in {"woken", "timeout", "signal"} : gss_create_upcall_wait(1, how)
    \/ gss_create_upcall_retry(1)
    \/ gss_create_upcall(1)
    \/ gss_create_upcall_schedule(1)
    \/ gss_create_upcall_intr(1)
    \/ gss_refresh(1)
    \/ gss_refresh_test_new(1)
    \/ gss_alloc_msg(1)
    \/ gss_setup_upcall_add(1)
    \/ gss_setup_upcall_queue(1, 0)
    \/ gss_refresh_upcall(1)
    \/ gss_upcall_callback(1)
    \/ RpcPipeVersionTimeout(1)
    \/ TakeResult(1)
    \/ PutCred(1)
    \/ \E p \in Pipes : gss_pipe_open(p)
    \/ gss_pipe_open_inc
    \/ put_pipe_version_reset
    \/ \E p \in Pipes, oops \in BOOLEAN : rpc_pipe_read(p, oops)
    \/ \E p \in Pipes : rpc_timeout_upcall_queue(p)
    \/ \E p \in Pipes : rpc_pipe_release(p)
    \/ \E oops \in BOOLEAN : rpc_pipe_release_purge(oops)
    \/ gss_pipe_release
    \/ gss_pipe_release_msg
    \/ \E p \in Pipes : \E in \in GssdAnswers(p, {KeyExpired, Context0}) :
           gss_pipe_downcall(p, in)
    \/ gss_pipe_downcall_fill(TRUE, 0)
    \/ gss_pipe_downcall_unhash
    \/ gss_pipe_downcall_release
    \/ \E x \in Ctxs : gss_do_free_ctx(x)

SpecPipe == Init /\ [][NextPipe]_vars

(***************************************************************************)
(* SpecShare: two asynchronous requesters of one uid and a gssd that       *)
(* answers them.                                                           *)
(***************************************************************************)
NextShare ==
    \/ \E t \in {1, 2} : LookupCred(t, User, TRUE)
    \/ \E t \in {1, 2} : gss_refresh(t)
    \/ \E t \in {1, 2} : gss_refresh_test_new(t)
    \/ \E t \in {1, 2} : gss_alloc_msg(t)
    \/ \E t \in {1, 2} : gss_setup_upcall_add(t)
    \/ \E t \in {1, 2} : gss_setup_upcall_queue(t, 0)
    \/ \E t \in {1, 2} : gss_refresh_upcall(t)
    \/ \E t \in {1, 2} : gss_upcall_callback(t)
    \/ \E t \in {1, 2} : RpcWokenNoCallback(t)
    \/ \E t \in {1, 2} : RpcPipeVersionTimeout(t)
    \/ \E t \in {1, 2} : TakeResult(t)
    \/ gss_pipe_open(1)
    \/ gss_pipe_open_inc
    \/ rpc_pipe_read(1, FALSE)
    \/ \E in \in GssdAnswers(1, {KeyExpired, Context0}) : gss_pipe_downcall(1, in)
    \/ gss_pipe_downcall_fill(TRUE, 0)
    \/ gss_pipe_downcall_unhash
    \/ gss_pipe_downcall_release
    \/ \E x \in Ctxs : gss_do_free_ctx(x)

SpecShare == Init /\ [][NextShare]_vars

(***************************************************************************)
(* SpecDedup: two synchronous requesters of one uid race with gssd         *)
(* reading, answering and closing the pipe.                                *)
(***************************************************************************)
NextDedup ==
    \/ \E t \in {1, 2} : LookupCred(t, User, FALSE)
    \/ \E t \in {1, 2} : gss_alloc_msg(t)
    \/ \E t \in {1, 2} : gss_setup_upcall_add(t)
    \/ \E t \in {1, 2} : gss_setup_upcall_queue(t, 0)
    \/ \E t \in {1, 2} : gss_create_upcall_wait(t, "woken")
    \/ \E t \in {1, 2} : gss_create_upcall_retry(t)
    \/ \E t \in {1, 2} : gss_create_upcall(t)
    \/ \E t \in {1, 2} : gss_create_upcall_schedule(t)
    \/ \E t \in {1, 2} : gss_create_upcall_intr(t)
    \/ \E t \in {1, 2} : TakeResult(t)
    \/ gss_pipe_open(1)
    \/ gss_pipe_open_inc
    \/ put_pipe_version_reset
    \/ \E oops \in BOOLEAN : rpc_pipe_read(1, oops)
    \/ rpc_pipe_release(1)
    \/ \E oops \in BOOLEAN : rpc_pipe_release_purge(oops)
    \/ gss_pipe_release
    \/ gss_pipe_release_msg
    \/ \E in \in GssdAnswers(1, {KeyExpired, Context0}) :
           gss_pipe_downcall(1, in)
    \/ gss_pipe_downcall_fill(TRUE, 0)
    \/ gss_pipe_downcall_unhash
    \/ gss_pipe_downcall_release
    \/ \E x \in Ctxs : gss_do_free_ctx(x)

SpecDedup == Init /\ [][NextDedup]_vars

(***************************************************************************)
(* SpecCall: two requesters share a credential and marshal calls on its    *)
(* context.                                                                *)
(***************************************************************************)
NextCall ==
    \/ \E t \in {1, 2} : LookupCred(t, User, TRUE)
    \/ gss_refresh(1)
    \/ gss_refresh_test_new(1)
    \/ gss_alloc_msg(1)
    \/ gss_setup_upcall_add(1)
    \/ gss_setup_upcall_queue(1, 0)
    \/ gss_refresh_upcall(1)
    \/ gss_upcall_callback(1)
    \/ TakeResult(1)
    \/ \E t \in {1, 2} : PutCred(t)
    \/ \E t \in {1, 2} : gss_cred_get_ctx_read(t, "gss_marshal")
    \/ \E t \in {1, 2} : gss_cred_get_ctx(t)
    \/ \E t \in {1, 2} : gss_marshal_seq_read(t)
    \/ \E t \in {1, 2} : gss_marshal_seq_inc(t)
    \/ \E t \in {1, 2} :
           \E maj_stat \in {"GSS_S_COMPLETE", "GSS_S_CONTEXT_EXPIRED"} :
               gss_hook_mech(t, maj_stat)
    \/ \E t \in {1, 2} : gss_hook_put_ctx(t)
    \/ gss_pipe_open(1)
    \/ gss_pipe_open_inc
    \/ rpc_pipe_read(1, FALSE)
    \/ \E in \in GssdAnswers(1, {Context0}) : gss_pipe_downcall(1, in)
    \/ gss_pipe_downcall_fill(TRUE, 0)
    \/ gss_pipe_downcall_unhash
    \/ gss_pipe_downcall_release
    \/ \E x \in Ctxs : gss_do_free_ctx(x)

SpecCall == Init /\ [][NextCall]_vars

(***************************************************************************)
(* SpecCtx: a requester in its per-call hooks while its credential is      *)
(* dropped from the cache and destroyed; task 2 is the rpc_task that       *)
(* gss_destroying_context starts.                                          *)
(***************************************************************************)
NextCtx ==
    \/ LookupCred(1, User, TRUE)
    \/ gss_refresh(1)
    \/ gss_refresh_test_new(1)
    \/ gss_refresh_null(2)
    \/ gss_alloc_msg(1)
    \/ gss_setup_upcall_add(1)
    \/ gss_setup_upcall_queue(1, 0)
    \/ gss_refresh_upcall(1)
    \/ gss_upcall_callback(1)
    \/ \E t \in {1, 2} : TakeResult(t)
    \/ \E t \in {1, 2} : PutCred(t)
    \/ \E c \in Creds : CacheEvict(c)
    \/ \E h \in Hooks : gss_cred_get_ctx_read(1, h)
    \/ gss_cred_get_ctx_read(2, "gss_validate")
    \/ \E t \in {1, 2} : gss_cred_get_ctx(t)
    \/ gss_marshal_seq_read(1)
    \/ gss_marshal_seq_inc(1)
    \/ \E t \in {1, 2} :
           \E maj_stat \in {"GSS_S_COMPLETE", "GSS_S_CONTEXT_EXPIRED"} :
               gss_hook_mech(t, maj_stat)
    \/ \E t \in {1, 2} : gss_hook_put_ctx(t)
    \/ gss_pipe_open(1)
    \/ gss_pipe_open_inc
    \/ rpc_pipe_read(1, FALSE)
    \/ \E in \in GssdAnswers(1, {Context0}) : gss_pipe_downcall(1, in)
    \/ gss_pipe_downcall_fill(TRUE, 0)
    \/ gss_pipe_downcall_unhash
    \/ gss_pipe_downcall_release
    \/ \E x \in Ctxs : gss_do_free_ctx(x)

SpecCtx == Init /\ [][NextCtx]_vars

(***************************************************************************)
(* SpecLive: two requesters of one uid, the first on the asynchronous path *)
(* and the second on either path, attach to upcalls while gssd opens,      *)
(* reads, answers and closes the pipe and the pipe layer times the queue   *)
(* out.  A thread                                                          *)
(* that runs kernel code goes on running, and a runnable task is run:      *)
(* these steps are weakly fair.  What gssd and the requesters choose to    *)
(* do (open, read, write, close, look up a credential) is not.             *)
(***************************************************************************)
NextLive ==
    \/ LookupCred(1, User, TRUE)
    \/ \E n \in BOOLEAN : LookupCred(2, User, n)
    \/ \E t \in {1, 2} : gss_refresh(t)
    \/ \E t \in {1, 2} : gss_refresh_test_new(t)
    \/ \E t \in {1, 2} : gss_alloc_msg(t)
    \/ \E t \in {1, 2} : gss_setup_upcall_add(t)
    \/ \E t \in {1, 2} : gss_setup_upcall_queue(t, 0)
    \/ \E t \in {1, 2} : gss_refresh_upcall(t)
    \/ \E t \in {1, 2} : gss_upcall_callback(t)
    \/ \E t \in {1, 2} : RpcWokenNoCallback(t)
    \/ \E t \in {1, 2} : RpcPipeVersionTimeout(t)
    \/ \E t \in {1, 2} : gss_create_upcall_wait(t, "woken")
    \/ \E t \in {1, 2} : gss_create_upcall_retry(t)
    \/ \E t \in {1, 2} : gss_create_upcall(t)
    \/ \E t \in {1, 2} : gss_create_upcall_schedule(t)
    \/ \E t \in {1, 2} : gss_create_upcall_intr(t)
    \/ \E t \in {1, 2} : TakeResult(t)
    \/ gss_pipe_open(1)
    \/ gss_pipe_open_inc
    \/ put_pipe_version_reset
    \/ rpc_pipe_read(1, FALSE)
    \/ rpc_timeout_upcall_queue(1)
    \/ rpc_pipe_release(1)
    \/ rpc_pipe_release_purge(FALSE)
    \/ gss_pipe_release
    \/ gss_pipe_release_msg
    \/ \E in \in GssdAnswers(1, {Context0}) : gss_pipe_downcall(1, in)
    \/ gss_pipe_downcall_fill(TRUE, 0)
    \/ gss_pipe_downcall_unhash
    \/ gss_pipe_downcall_release
    \/ \E x \in Ctxs : gss_do_free_ctx(x)

\* the steps of a thread that is inside a pipe operation
DaemonStep ==
    \/ gss_pipe_open_inc
    \/ gss_pipe_downcall_fill(TRUE, 0)
    \/ gss_pipe_downcall_unhash
    \/ gss_pipe_downcall_release
    \/ rpc_pipe_release_purge(FALSE)
    \/ gss_pipe_release
    \/ gss_pipe_release_msg

\* the steps of a requester that has been woken or that finds its message
\* completed
TaskStep(t) ==
    \/ gss_upcall_callback(t)
    \/ RpcWokenNoCallback(t)
    \/ gss_create_upcall(t)

\* A step that waits for a spinlock gets it in the end (the locks are
\* ticket locks), so the fairness is strong.
Running ==
    /\ SF_vars(DaemonStep)
    /\ SF_vars(put_pipe_version_reset)
    /\ \A t \in {1, 2} : SF_vars(TaskStep(t))

SpecLive == Init /\ [][NextLive]_vars /\ Running

(***************************************************************************)
(* The integrity and privacy services.  A buffer is the sequence of its    *)
(* bytes; a pointer into it is the number of bytes before it.              *)
(***************************************************************************)
\* htonl: the four bytes of a 32-bit word, most significant first
htonl(n) ==
    << (n \div 16777216) % 256, (n \div 65536) % 256, (n \div 256) % 256,
       n % 256 >>

\* ntohl of the four bytes at the offset p of buf
ntohl(buf, p) ==
    buf[p + 1] * 16777216 + buf[p + 2] * 65536 + buf[p + 3] * 256 + buf[p + 4]

Zeros(n) ==
    [i \in 1..n |-> 0]

\* xdr_encode_opaque(p, NULL, len) around the bytes the caller has put at
\* p + 1: the length, the bytes, and zero bytes up to a multiple of four
xdr_encode_opaque(data) ==
    htonl(Len(data)) \o data \o Zeros((4 - (Len(data) % 4)) % 4)

\* the mechanism's get_mic: a token that no other data has
gss_get_mic(gss_ctx, data) ==
    << gss_ctx >> \o [i \in 1..Len(data) |-> 255 - data[i]]

\* the mechanism's verify_mic accepts the tokens of its get_mic only
gss_verify_mic(gss_ctx, data, mic) ==
    IF mic = gss_get_mic(gss_ctx, data) THEN "GSS_S_COMPLETE"
    ELSE "GSS_S_BAD_SIG"

\* gss_wrap_req_integ; the buffer starts at p, everything is in the head, and
\* body is what encode() writes; maj_stat is what gss_get_mic returns
gss_wrap_req_integ(rq_seqno, body, gss_ctx, maj_stat) ==
    LET integ_buf == htonl(rq_seqno) \o body
        snd_buf == htonl(Len(integ_buf)) \o integ_buf
    IN  IF maj_stat \notin {"GSS_S_COMPLETE", "GSS_S_CONTEXT_EXPIRED"}
        THEN [status |-> -EIO, buf |-> snd_buf]
        ELSE [status |-> 0,
              buf |-> snd_buf
                      \o xdr_encode_opaque(gss_get_mic(gss_ctx, integ_buf))]

\* a faulty gss_unwrap_resp_integ that takes any length
integ_len_ok_any(integ_len) == TRUE

\* gss_unwrap_resp_integ: if (integ_len & 3) return status
integ_len_ok(integ_len) ==
    integ_len % 4 = 0

\* gss_unwrap_resp_integ on the buffer that starts at p; p of the result is
\* where it leaves *p
gss_unwrap_resp_integ(rq_seqno, rcv_buf, gss_ctx) ==
    LET integ_len == ntohl(rcv_buf, 0)
        data_offset == 4
        mic_offset == integ_len + data_offset
        fail == [status |-> -EIO, p |-> data_offset]
    IN  IF ~integ_len_ok(integ_len) THEN fail
        ELSE IF mic_offset > Len(rcv_buf) THEN fail
        ELSE IF ntohl(rcv_buf, data_offset) # rq_seqno THEN fail
        ELSE IF mic_offset + 4 > Len(rcv_buf) THEN fail
        ELSE IF mic_offset + 4 + ntohl(rcv_buf, mic_offset) > Len(rcv_buf)
        THEN fail
        ELSE LET integ_buf == SubSeq(rcv_buf, data_offset + 1, mic_offset)
                 mic == SubSeq(rcv_buf, mic_offset + 5,
                               mic_offset + 4 + ntohl(rcv_buf, mic_offset))
             IN  IF gss_verify_mic(gss_ctx, integ_buf, mic) # "GSS_S_COMPLETE"
                 THEN fail
                 ELSE [status |-> 0, p |-> data_offset + 4]

\* the mechanism's wrap: a token header whose length depends on the
\* context, the data enciphered, and a checksum of the data
gss_wrap(gss_ctx, data) ==
    [i \in 1..gss_ctx |-> gss_ctx]
    \o [i \in 1..Len(data) |-> 255 - data[i]]
    \o [i \in 1..Len(data) |-> (data[i] + 1) % 256]

\* the mechanism's unwrap of the token: the data, when the token is one that
\* its wrap makes
gss_unwrap(gss_ctx, token) ==
    LET n == (Len(token) - gss_ctx) \div 2
        data == [i \in 1..n |-> 255 - token[gss_ctx + i]]
    IN  IF Len(token) >= gss_ctx /\ token = gss_wrap(gss_ctx, data)
        THEN [maj_stat |-> "GSS_S_COMPLETE", data |-> data]
        ELSE [maj_stat |-> "GSS_S_DEFECTIVE_TOKEN", data |-> << >>]

\* a faulty padding that adds four bytes to a length that is a multiple of 4
gss_wrap_req_priv_pad_mod(len) ==
    4 - (len % 4)

\* gss_wrap_req_priv: pad = 3 - ((snd_buf->len - offset - 1) & 3)
gss_wrap_req_priv_pad(len) ==
    3 - ((len - 1) % 4)

\* gss_wrap_req_priv; the buffer starts at p; maj_stat is what gss_wrap
\* returns, pad is the number of bytes of the memset
gss_wrap_req_priv(rq_seqno, body, gss_ctx, maj_stat) ==
    LET token == gss_wrap(gss_ctx, htonl(rq_seqno) \o body)
        pad == gss_wrap_req_priv_pad(Len(token))
    IN  IF maj_stat \notin {"GSS_S_COMPLETE", "GSS_S_CONTEXT_EXPIRED"}
        THEN [status |-> -EIO, buf |-> htonl(0) \o token, pad |-> 0]
        ELSE [status |-> 0, buf |-> htonl(Len(token)) \o token \o Zeros(pad),
              pad |-> pad]

\* gss_unwrap_resp_priv on the buffer that starts at p; buf of the result is
\* the buffer with the padding removed and the token replaced by its data
gss_unwrap_resp_priv(rq_seqno, rcv_buf, gss_ctx) ==
    LET opaque_len == ntohl(rcv_buf, 0)
        offset == 4
        fail == [status |-> -EIO, p |-> offset, buf |-> rcv_buf]
    IN  IF offset + opaque_len > Len(rcv_buf) THEN fail
        ELSE LET r == gss_unwrap(gss_ctx,
                                 SubSeq(rcv_buf, offset + 1, offset + opaque_len))
                 buf == SubSeq(rcv_buf, 1, offset) \o r.data
             IN  IF r.maj_stat # "GSS_S_COMPLETE" THEN fail
                 ELSE IF ntohl(buf, offset) # rq_seqno
                 THEN [status |-> -EIO, p |-> offset + 4, buf |-> buf]
                 ELSE [status |-> 0, p |-> offset + 4, buf |-> buf]

\* the services of a pseudoflavor
Services ==
    {"RPC_GSS_SVC_NONE", "RPC_GSS_SVC_INTEGRITY", "RPC_GSS_SVC_PRIVACY"}

\* gss_wrap_req: the status and the send buffer from p on
gss_wrap_req(gc_proc, gc_service, rq_seqno, body, gss_ctx, maj_stat) ==
    IF gc_proc # RPC_GSS_PROC_DATA \/ gc_service = "RPC_GSS_SVC_NONE"
    THEN [status |-> 0, buf |-> body]
    ELSE IF gc_service = "RPC_GSS_SVC_INTEGRITY"
    THEN gss_wrap_req_integ(rq_seqno, body, gss_ctx, maj_stat)
    ELSE [x \in {"status", "buf"} |->
             gss_wrap_req_priv(rq_seqno, body, gss_ctx, maj_stat)[x]]

\* gss_unwrap_resp on the receive buffer from p on: the status, whether
\* decode() is called, and the bytes it is given up to the end of what the
\* service covers
gss_unwrap_resp(gc_proc, gc_service, rq_seqno, rcv_buf, gss_ctx) ==
    IF gc_proc # RPC_GSS_PROC_DATA \/ gc_service = "RPC_GSS_SVC_NONE"
    THEN [status |-> 0, decode |-> TRUE, body |-> rcv_buf]
    ELSE IF gc_service = "RPC_GSS_SVC_INTEGRITY"
    THEN LET r == gss_unwrap_resp_integ(rq_seqno, rcv_buf, gss_ctx)
         IN  IF r.status # 0
             THEN [status |-> r.status, decode |-> FALSE, body |-> << >>]
             ELSE [status |-> 0, decode |-> TRUE,
                   body |-> SubSeq(rcv_buf, r.p + 1, 4 + ntohl(rcv_buf, 0))]
    ELSE LET r == gss_unwrap_resp_priv(rq_seqno, rcv_buf, gss_ctx)
         IN  IF r.status # 0
             THEN [status |-> r.status, decode |-> FALSE, body |-> << >>]
             ELSE [status |-> 0, decode |-> TRUE,
                   body |-> SubSeq(r.buf, r.p + 1, Len(r.buf))]

(***************************************************************************)
(* SpecWrap: gss_wrap_req builds a request body, the bytes travel, with or *)
(* without one bit changed, and gss_unwrap_resp is applied to them with    *)
(* the same context and sequence number.                                   *)
(***************************************************************************)
\* the longest body, the contexts and the bits that may change in transit
MaxBodyLen == 17
MaxGssCtx == 2
FlipBits == {0, 2, 6}

\* what encode() writes: a body of n bytes
Body(n) ==
    [i \in 1..n |-> (7 * i) % 256]

\* the calls of gss_wrap_req
WrapCalls ==
    [ fn : {"gss_wrap_req"}, pc : {"args"},
      gc_proc : {RPC_GSS_PROC_DATA, RPC_GSS_PROC_DESTROY},
      gc_service : Services,
      rq_seqno : 1..MaxSeq,
      body : {Body(n) : n \in 0..MaxBodyLen},
      gss_ctx : 1..MaxGssCtx,
      maj_stat : {"GSS_S_COMPLETE", "GSS_S_FAILURE"},
      status : {0}, buf : {<< >>}, pad : {0}, transit : {"none"},
      decode : {FALSE}, decoded : {<< >>} ]

InitWrap ==
    /\ InitKernel
    /\ call \in WrapCalls

KernelUnchanged ==
    UNCHANGED << now, pipe_version, pipe_users, pipe_version_lock,
                 gssd_running, pipe_open, in_downcall, pipe_queue, msg, ctx,
                 cred, task, daemon, auth >>

\* the part of a wrapped body the byte i is in
Part(c, i) ==
    IF c.gc_proc # RPC_GSS_PROC_DATA \/ c.gc_service = "RPC_GSS_SVC_NONE"
    THEN "body"
    ELSE IF i <= 4 THEN "len"
    ELSE IF c.gc_service = "RPC_GSS_SVC_PRIVACY"
    THEN IF i <= Len(c.buf) - c.pad THEN "token" ELSE "pad"
    ELSE IF i <= 8 THEN "seq"
    ELSE IF i <= 8 + Len(c.body) THEN "body"
    ELSE IF i <= 12 + Len(c.body) + ntohl(c.buf, 8 + Len(c.body)) THEN "mic"
    ELSE "pad"

\* the byte b with the bit k changed
FlipBit(b, k) ==
    IF (b \div 2^k) % 2 = 1 THEN b - 2^k ELSE b + 2^k

\* the call of gss_wrap_req; a request that cannot be wrapped is not sent
gss_wrap_req_call ==
    /\ call.pc = "args"
    /\ LET r == gss_wrap_req(call.gc_proc, call.gc_service, call.rq_seqno,
                             call.body, call.gss_ctx, call.maj_stat)
       IN  call' = [call EXCEPT
                      !.pc = IF r.status = 0 THEN "sent" ELSE "done",
                      !.status = r.status, !.buf = r.buf,
                      !.pad = IF call.gc_proc = RPC_GSS_PROC_DATA
                                 /\ call.gc_service = "RPC_GSS_SVC_PRIVACY"
                              THEN gss_wrap_req_priv(call.rq_seqno, call.body,
                                       call.gss_ctx, call.maj_stat).pad
                              ELSE 0]
    /\ KernelUnchanged

\* the bytes arrive as they were sent
Delivered ==
    /\ call.pc = "sent"
    /\ call' = [call EXCEPT !.pc = "received"]
    /\ KernelUnchanged

\* the bytes arrive with the bit k of the byte i changed
InTransit(i, k) ==
    /\ call.pc = "sent"
    /\ i \in 1..Len(call.buf)
    /\ call' = [call EXCEPT !.pc = "received", !.transit = Part(call, i),
                            !.buf[i] = FlipBit(@, k)]
    /\ KernelUnchanged

\* the call of gss_unwrap_resp on the bytes that arrived
gss_unwrap_resp_call ==
    /\ call.pc = "received"
    /\ LET r == gss_unwrap_resp(call.gc_proc, call.gc_service, call.rq_seqno,
                                call.buf, call.gss_ctx)
       IN  call' = [call EXCEPT !.pc = "done", !.status = r.status,
                               !.decode = r.decode, !.decoded = r.body]
    /\ KernelUnchanged

NextWrap ==
    \/ gss_wrap_req_call
    \/ Delivered
    \/ \E i \in 1..(4 * MaxBodyLen), k \in FlipBits : InTransit(i, k)
    \/ gss_unwrap_resp_call

SpecWrap == InitWrap /\ [][NextWrap]_vars

(***************************************************************************)
(* SpecEncode: gss_encode_msg writes the upcall into databuf, the last     *)
(* member of struct gss_upcall_msg, and the message is queued.  The text   *)
(* is a string; sprintf writes it and a terminating NUL after it.          *)
(***************************************************************************)
UPCALL_BUF_LEN == 128

\* the lengths of clnt->cl_principal
MinTargetLen == 58
MaxTargetLen == 66

Digit == << "0", "1", "2", "3", "4", "5", "6", "7", "8", "9" >>

RECURSIVE Utoa(_)
Utoa(n) ==
    IF n < 10 THEN Digit[n + 1] ELSE Utoa(n \div 10) \o Digit[(n % 10) + 1]

\* "%d"
Itoa(n) ==
    IF n < 0 THEN "-" \o Utoa(-n) ELSE Utoa(n)

\* a host name of n characters
RECURSIVE HostName(_)
HostName(n) ==
    IF n = 0 THEN "" ELSE "h" \o HostName(n - 1)

\* the calls of gss_encode_msg
EncodeCalls ==
    [ fn : {"gss_encode_msg"}, pc : {"encode"},
      pipe_version : Pipes,
      gm_name : {"krb5"},
      uid : {0, 1000},
      cl_principal : {NoString}
                     \cup {HostName(n) : n \in MinTargetLen..MaxTargetLen},
      service_name : {NoString, "nfs"},
      gm_upcall_enctypes : {NoString, "18,17,16,23,3,1,2"},
      databuf : {""}, len : {0}, written : {0}, heap : {"intact"} ]

InitEncode ==
    /\ InitKernel
    /\ call \in EncodeCalls

\* len = sprintf(p, s); p += len; gss_msg->msg.len += len, with p at
\* databuf + msg.len: the characters of s and a NUL are stored from p on,
\* wherever that is; written is the number of bytes from the start of
\* databuf to the last byte stored
sprintf(c, s) ==
    [c EXCEPT !.databuf = @ \o s,
              !.len = @ + Len(s),
              !.written = IF c.len + Len(s) + 1 > @ THEN c.len + Len(s) + 1
                          ELSE @]

\* gss_encode_v0_msg
gss_encode_v0_msg(c) ==
    [c EXCEPT !.databuf = "uid_", !.len = 4, !.written = 4, !.pc = "BUG_ON"]

\* gss_encode_v1_msg, one sprintf at a time
gss_encode_v1_msg(c) ==
    IF c.pc = "mech"
    THEN [sprintf(c, "mech=" \o c.gm_name \o " uid=" \o Itoa(c.uid) \o " ")
             EXCEPT !.pc = "target"]
    ELSE IF c.pc = "target"
    THEN [(IF c.cl_principal # NoString
           THEN sprintf(c, "target=" \o c.cl_principal \o " ") ELSE c)
             EXCEPT !.pc = "service"]
    ELSE IF c.pc = "service"
    THEN [(IF c.service_name # NoString
           THEN sprintf(c, "service=" \o c.service_name \o " ") ELSE c)
             EXCEPT !.pc = "enctypes"]
    ELSE IF c.pc = "enctypes"
    THEN [(IF c.gm_upcall_enctypes # NoString
           THEN sprintf(c, "enctypes=" \o c.gm_upcall_enctypes \o " ") ELSE c)
             EXCEPT !.pc = "newline"]
    ELSE [sprintf(c, "\n") EXCEPT !.pc = "BUG_ON"]

\* gss_encode_msg chooses the format by sn->pipe_version
gss_encode_msg ==
    /\ call.pc = "encode"
    /\ call' = IF call.pipe_version = 0 THEN gss_encode_v0_msg(call)
               ELSE [call EXCEPT !.pc = "mech"]
    /\ KernelUnchanged

\* a sprintf of gss_encode_v1_msg; a store outside the structure may or may
\* not damage what lies behind it
gss_encode_v1_msg_sprintf ==
    /\ call.pc \in {"mech", "target", "service", "enctypes", "newline"}
    /\ \E c \in {gss_encode_v1_msg(call)} :
           \E heap \in {"intact", "corrupted"} :
               /\ c.written <= UPCALL_BUF_LEN => heap = call.heap
               /\ call.heap = "corrupted" => heap = "corrupted"
               /\ call' = [c EXCEPT !.heap = heap]
    /\ KernelUnchanged

\* BUG_ON(gss_msg->msg.len > UPCALL_BUF_LEN): the thread dies in the kernel
\* or the encoded message goes back to gss_alloc_msg
gss_encode_msg_BUG_ON ==
    /\ call.pc = "BUG_ON"
    /\ call' = [call EXCEPT !.pc = IF call.len > UPCALL_BUF_LEN THEN "BUG"
                                   ELSE "encoded"]
    /\ KernelUnchanged

\* gss_setup_upcall: rpc_queue_upcall(pipe, &gss_msg->msg) puts the len bytes
\* at msg.data on the queue that userspace reads
rpc_queue_upcall ==
    /\ call.pc = "encoded"
    /\ call' = [call EXCEPT !.pc = "queued"]
    /\ KernelUnchanged

NextEncode ==
    \/ gss_encode_msg
    \/ gss_encode_v1_msg_sprintf
    \/ gss_encode_msg_BUG_ON
    \/ rpc_queue_upcall

SpecEncode == InitEncode /\ [][NextEncode]_vars

(***************************************************************************)
(* SpecCount: two asynchronous requesters of one uid share an upcall and   *)
(* the context that gssd answers with, use it in marshal and unwrap calls, *)
(* and give up the credential, which the cache drops.                      *)
(***************************************************************************)
NextCount ==
    \/ \E t \in {1, 2} : LookupCred(t, User, TRUE)
    \/ \E t \in {1, 2} : gss_refresh(t)
    \/ \E t \in {1, 2} : gss_refresh_test_new(t)
    \/ \E t \in {1, 2} : gss_alloc_msg(t)
    \/ \E t \in {1, 2} : gss_setup_upcall_add(t)
    \/ \E t \in {1, 2} : gss_setup_upcall_queue(t, 0)
    \/ \E t \in {1, 2} : gss_refresh_upcall(t)
    \/ \E t \in {1, 2} : gss_upcall_callback(t)
    \/ \E t \in {1, 2} : RpcWokenNoCallback(t)
    \/ \E t \in {1, 2} : TakeResult(t)
    \/ \E t \in {1, 2} : PutCred(t)
    \/ \E c \in Creds : CacheEvict(c)
    \/ \E t \in {1, 2} : gss_cred_get_ctx_read(t, "gss_unwrap_resp")
    \/ \E t \in {1, 2} : gss_cred_get_ctx(t)
    \/ \E t \in {1, 2} : gss_hook_mech(t, "GSS_S_COMPLETE")
    \/ \E t \in {1, 2} : gss_hook_put_ctx(t)
    \/ gss_pipe_open(1)
    \/ gss_pipe_open_inc
    \/ rpc_pipe_read(1, FALSE)
    \/ \E in \in GssdAnswers(1, {Context0}) : gss_pipe_downcall(1, in)
    \/ gss_pipe_downcall_fill(TRUE, 0)
    \/ gss_pipe_downcall_unhash
    \/ gss_pipe_downcall_release
    \/ \E x \in Ctxs : gss_do_free_ctx(x)

SpecCount == Init /\ [][NextCount]_vars

(***************************************************************************)
(* SpecMatch: gss_match is called for one credential of the cache, in any  *)
(* of the states a cached credential can be in, around the time at which   *)
(* jiffies wraps.                                                          *)
(***************************************************************************)
\* the times of the calls: the last two before jiffies wraps and the first
\* two after
MatchTimes ==
    (2^JiffiesBits - 2)..(2^JiffiesBits + 1)

\* gc_expiry minus the time of the call: the context has expired long
\* ago or one tick ago, expires at this tick, at the next, or as late as
\* time_after can tell
MatchExpiries ==
    { 0 - 2^(JiffiesBits - 1), 0 - 1, 0, 1, 2^(JiffiesBits - 1) - 1 }

\* the flags a credential of the cache can have: new, new and just given
\* its context by gss_cred_set_ctx, up to date, no longer up to date
MatchFlags ==
    { {"HASHED", "NEW"}, {"HASHED", "NEW", "UPTODATE"},
      {"HASHED", "UPTODATE"}, {"HASHED"} }

\* the identities of a credential: cr_uid and gc_principal
MatchIds ==
    { << 1000, NoString >>, << 0, NoString >>, << 0, "nfs" >>,
      << 0, "host" >> }

\* the struct auth_cred of the lookups
MatchACreds ==
    [ uid : {0, 1000}, principal : {NoString, "nfs", "host"},
      machine_cred : {FALSE} ]

\* the credential 1 is in the cache; it has the context 1 unless it is new
\* and has none yet.  call holds the arguments of gss_match; expiry is the
\* time at which the context expires, of which gc_expiry holds the word
InitMatch ==
    /\ pipe_version = -1
    /\ pipe_users = 0
    /\ pipe_version_lock = "free"
    /\ gssd_running = TRUE
    /\ pipe_open = [p \in Pipes |-> FALSE]
    /\ in_downcall = [p \in Pipes |-> {}]
    /\ pipe_queue = [p \in Pipes |-> {}]
    /\ msg = [m \in Msgs |-> NoMsg]
    /\ task = [t \in Tasks |-> IdleTask]
    /\ daemon = IdleDaemon
    /\ now \in MatchTimes
    /\ \E d \in MatchExpiries, f \in MatchFlags, id \in MatchIds,
          ac \in MatchACreds :
          LET x == IF f = {"HASHED", "NEW"} THEN NULL ELSE 1
          IN  /\ cred = [c \in Creds |->
                    IF c = 1
                    THEN [NoCred EXCEPT !.st = "live", !.cr_uid = id[1],
                                        !.gc_principal = id[2],
                                        !.cr_flags = f, !.gc_ctx = x,
                                        !.cr_count = 1]
                    ELSE NoCred]
              /\ ctx = [y \in Ctxs |->
                    IF y = x
                    THEN [NoCtx EXCEPT !.st = "live", !.count = 1,
                                       !.gc_proc = RPC_GSS_PROC_DATA,
                                       !.gc_seq = 1,
                                       !.gc_expiry = jiffies(now + d)]
                    ELSE NoCtx]
              /\ auth = [NewAuth EXCEPT !.kref = 2]
              /\ call = [ fn |-> "gss_match", acred |-> ac,
                          expiry |-> now + d, pc |-> "call",
                          result |-> FALSE ]

\* rpcauth_lookup_credcache: cred->cr_ops->crmatch(acred, cred, flags)
gss_match_call ==
    /\ call.fn = "gss_match"
    /\ call.pc = "call"
    /\ call' = [call EXCEPT !.pc = "done",
                            !.result = gss_match(K, call.acred, cred[1])]
    /\ KernelUnchanged

NextMatch ==
    gss_match_call

SpecMatch == InitMatch /\ [][NextMatch]_vars

(***************************************************************************)
(* SpecDowncall: one rpc_task of uid 1000 and a gssd that, besides         *)
(* answering the upcalls it has read, writes downcalls that are too long,  *)
(* too short, or for a uid that has no upcall in the pipe.                 *)
(***************************************************************************)
\* the writes gssd can make: those of GssdAnswers, and those with a uid
\* for which no message is in pipe->in_downcall
GssdWrites(p, inputs) ==
    GssdAnswers(p, inputs)
        \cup {in \in inputs :
                /\ in.buf # << >>
                /\ \A m \in in_downcall[p] : msg[m].uid # in.buf[1]}

NextDowncall ==
    \/ LookupCred(1, User, TRUE)
    \/ gss_refresh(1)
    \/ gss_refresh_test_new(1)
    \/ gss_alloc_msg(1)
    \/ gss_setup_upcall_add(1)
    \/ gss_setup_upcall_queue(1, 0)
    \/ gss_refresh_upcall(1)
    \/ gss_upcall_callback(1)
    \/ RpcPipeVersionTimeout(1)
    \/ TakeResult(1)
    \/ PutCred(1)
    \/ gss_pipe_open(1)
    \/ gss_pipe_open_inc
    \/ rpc_pipe_read(1, FALSE)
    \/ \E in \in GssdWrites(1, DowncallInputs) : gss_pipe_downcall(1, in)
    \/ gss_pipe_downcall_fill(TRUE, 0)
    \/ gss_pipe_downcall_unhash
    \/ gss_pipe_downcall_release
    \/ \E x \in Ctxs : gss_do_free_ctx(x)

SpecDowncall == Init /\ [][NextDowncall]_vars

(***************************************************************************)
(* SpecLate: one rpc_task and a gssd that writes its answer for any upcall *)
(* that is in the pipe, whether it has read it or not, closes the pipe,    *)
(* and lets the queue time out.                                            *)
(***************************************************************************)
\* the writes, out of a set of them, for which gss_pipe_downcall finds a
\* message
GssdAnswersAny(p, inputs) ==
    {in \in inputs : \E m \in in_downcall[p] : msg[m].uid = in.buf[1]}

NextLate ==
    \/ LookupCred(1, User, TRUE)
    \/ gss_refresh(1)
    \/ gss_refresh_test_new(1)
    \/ gss_alloc_msg(1)
    \/ gss_setup_upcall_add(1)
    \/ gss_setup_upcall_queue(1, 0)
    \/ gss_refresh_upcall(1)
    \/ gss_upcall_callback(1)
    \/ RpcPipeVersionTimeout(1)
    \/ TakeResult(1)
    \/ PutCred(1)
    \/ gss_pipe_open(1)
    \/ gss_pipe_open_inc
    \/ put_pipe_version_reset
    \/ \E oops \in BOOLEAN : rpc_pipe_read(1, oops)
    \/ rpc_timeout_upcall_queue(1)
    \/ rpc_pipe_release(1)
    \/ \E oops \in BOOLEAN : rpc_pipe_release_purge(oops)
    \/ gss_pipe_release
    \/ gss_pipe_release_msg
    \/ \E in \in GssdAnswersAny(1, {KeyExpired, Context0}) :
           gss_pipe_downcall(1, in)
    \/ gss_pipe_downcall_fill(TRUE, 0)
    \/ gss_pipe_downcall_unhash
    \/ gss_pipe_downcall_release
    \/ \E x \in Ctxs : gss_do_free_ctx(x)

SpecLate == Init /\ [][NextLate]_vars

(***************************************************************************)
(* SpecQueue: two asynchronous requesters of one uid, a gssd that answers  *)
(* what it has read, and an rpc_queue_upcall that can fail.                *)
(***************************************************************************)
\* what rpc_queue_upcall returns
QueueResults == {0, -EPIPE}

NextQueue ==
    \/ \E t \in {1, 2} : LookupCred(t, User, TRUE)
    \/ \E t \in {1, 2} : gss_refresh(t)
    \/ \E t \in {1, 2} : gss_refresh_test_new(t)
    \/ \E t \in {1, 2} : gss_alloc_msg(t)
    \/ \E t \in {1, 2} : gss_setup_upcall_add(t)
    \/ \E t \in {1, 2}, res \in QueueResults : gss_setup_upcall_queue(t, res)
    \/ \E t \in {1, 2} : gss_refresh_upcall(t)
    \/ \E t \in {1, 2} : gss_upcall_callback(t)
    \/ \E t \in {1, 2} : RpcWokenNoCallback(t)
    \/ \E t \in {1, 2} : RpcPipeVersionTimeout(t)
    \/ \E t \in {1, 2} : TakeResult(t)
    \/ \E t \in {1, 2} : PutCred(t)
    \/ gss_pipe_open(1)
    \/ gss_pipe_open_inc
    \/ rpc_pipe_read(1, FALSE)
    \/ \E in \in GssdAnswers(1, {KeyExpired, Context0}) : gss_pipe_downcall(1, in)
    \/ gss_pipe_downcall_fill(TRUE, 0)
    \/ gss_pipe_downcall_unhash
    \/ gss_pipe_downcall_release
    \/ \E x \in Ctxs : gss_do_free_ctx(x)

SpecQueue == Init /\ [][NextQueue]_vars

(***************************************************************************)
(* SpecPrincipal: two asynchronous requesters of uid 0, one with the       *)
(* machine credential of the principal "nfs" and one with the credential   *)
(* of the user root, and a gssd that answers what it has read.             *)
(***************************************************************************)
\* the struct auth_cred of the machine credential
Machine == [uid |-> 0, principal |-> "nfs", machine_cred |-> TRUE]

\* the struct auth_cred of the user root
Root == [uid |-> 0, principal |-> NoString, machine_cred |-> FALSE]

\* a context for uid 0: timeout 0, window 1, a 4-byte handle and a 4-byte
\* token
Context0Root == [buf |-> << 0, 0, 1, 4, 7, 4, 9 >>, mlen |-> 28]

NextPrincipal ==
    \/ LookupCred(1, Machine, TRUE)
    \/ LookupCred(2, Root, TRUE)
    \/ \E t \in {1, 2} : gss_refresh(t)
    \/ \E t \in {1, 2} : gss_refresh_test_new(t)
    \/ \E t \in {1, 2} : gss_alloc_msg(t)
    \/ \E t \in {1, 2} : gss_setup_upcall_add(t)
    \/ \E t \in {1, 2} : gss_setup_upcall_queue(t, 0)
    \/ \E t \in {1, 2} : gss_refresh_upcall(t)
    \/ \E t \in {1, 2} : gss_upcall_callback(t)
    \/ \E t \in {1, 2} : RpcPipeVersionTimeout(t)
    \/ \E t \in {1, 2} : TakeResult(t)
    \/ \E t \in {1, 2} : PutCred(t)
    \/ gss_pipe_open(1)
    \/ gss_pipe_open_inc
    \/ rpc_pipe_read(1, FALSE)
    \/ \E in \in GssdAnswers(1, {Context0Root}) : gss_pipe_downcall(1, in)
    \/ gss_pipe_downcall_fill(TRUE, 0)
    \/ gss_pipe_downcall_unhash
    \/ gss_pipe_downcall_release

SpecPrincipal == Init /\ [][NextPrincipal]_vars

(***************************************************************************)
(* SpecNegative: an rpc_task and a second user of the same credential,     *)
(* which is an rpc_task or a lookup that initialises the credential        *)
(* (gss_cred_init); gssd answers with a context or with -EKEYEXPIRED.      *)
(***************************************************************************)
NextNegative ==
    \/ LookupCred(1, User, TRUE)
    \/ \E n \in BOOLEAN : LookupCred(2, User, n)
    \/ \E t \in {1, 2} : gss_refresh(t)
    \/ \E t \in {1, 2} : gss_refresh_test_new(t)
    \/ \E t \in {1, 2} : gss_alloc_msg(t)
    \/ \E t \in {1, 2} : gss_setup_upcall_add(t)
    \/ \E t \in {1, 2} : gss_setup_upcall_queue(t, 0)
    \/ \E t \in {1, 2} : gss_refresh_upcall(t)
    \/ \E t \in {1, 2} : gss_upcall_callback(t)
    \/ \E t \in {1, 2} : RpcWokenNoCallback(t)
    \/ gss_create_upcall(2)
    \/ gss_create_upcall_schedule(2)
    \/ \E t \in {1, 2} : TakeResult(t)
    \/ gss_pipe_open(1)
    \/ gss_pipe_open_inc
    \/ rpc_pipe_read(1, FALSE)
    \/ \E in \in GssdAnswers(1, {KeyExpired, Context0}) : gss_pipe_downcall(1, in)
    \/ gss_pipe_downcall_fill(TRUE, 0)
    \/ gss_pipe_downcall_unhash
    \/ gss_pipe_downcall_release

SpecNegative == Init /\ [][NextNegative]_vars

(***************************************************************************)
(* SpecAuth: the gss_auth is used by one rpc_task whose credential gets a  *)
(* context from gssd, is destroyed by gss_destroy while credentials and    *)
(* the RPC_GSS_PROC_DESTROY call of one (task 2) may be outstanding, is    *)
(* freed, and is created again, with and without failures.                 *)
(***************************************************************************)
\* nothing of an earlier gss_auth is left: its pipes are closed and empty
PipesIdle ==
    /\ \A p \in Pipes : ~pipe_open[p]
    /\ \A m \in Msgs : msg[m].st = "free"
    /\ daemon.pc = "idle"

NextAuth ==
    \/ auth.pc = "live" /\ LookupCred(1, User, TRUE)
    \/ gss_refresh(1)
    \/ gss_refresh_test_new(1)
    \/ gss_refresh_null(2)
    \/ gss_alloc_msg(1)
    \/ gss_setup_upcall_add(1)
    \/ gss_setup_upcall_queue(1, 0)
    \/ gss_refresh_upcall(1)
    \/ gss_upcall_callback(1)
    \/ \E t \in {1, 2} : TakeResult(t)
    \/ \E t \in {1, 2} : PutCred(t)
    \/ \E c \in Creds : CacheEvict(c)
    \/ auth.dentry[1] /\ gss_pipe_open(1)
    \/ gss_pipe_open_inc
    \/ rpc_pipe_read(1, FALSE)
    \/ \E in \in GssdAnswers(1, {Context0}) : gss_pipe_downcall(1, in)
    \/ gss_pipe_downcall_fill(TRUE, 0)
    \/ gss_pipe_downcall_unhash
    \/ gss_pipe_downcall_release
    \/ rpc_pipe_release(1)
    \/ rpc_pipe_release_purge(FALSE)
    \/ gss_pipe_release
    \/ gss_pipe_release_msg
    \/ put_pipe_version_reset
    \/ \E x \in Ctxs : gss_do_free_ctx(x)
    \/ gss_destroy
    \/ \E c \in Creds : gss_destroy_credcache(c)
    \/ gss_destroy_kref_put
    \/ gss_pipes_dentries_destroy_v0
    \/ gss_pipes_dentries_destroy_v1
    \/ gss_free
    \/ PipesIdle /\ gss_create
    \/ \E ok \in BOOLEAN : gss_pipes_dentries_create_first(ok)
    \/ \E ok \in BOOLEAN : gss_pipes_dentries_create_second(ok)
    \/ \E ok \in BOOLEAN : gss_create_credcache(ok)

SpecAuth == Init /\ [][NextAuth]_vars

(***************************************************************************)
(* SpecRenew: two asynchronous requesters of one uid; the first marshals   *)
(* calls whose context the mechanism may report expired, gssd answers with *)
(* a context or with "key expired".                                         *)
(***************************************************************************)
NextRenew ==
    \/ \E t \in {1, 2} : LookupCred(t, User, TRUE)
    \/ \E t \in {1, 2} : gss_refresh(t)
    \/ \E t \in {1, 2} : gss_refresh_test_new(t)
    \/ \E t \in {1, 2} : gss_alloc_msg(t)
    \/ \E t \in {1, 2} : gss_setup_upcall_add(t)
    \/ \E t \in {1, 2} : gss_setup_upcall_queue(t, 0)
    \/ \E t \in {1, 2} : gss_refresh_upcall(t)
    \/ \E t \in {1, 2} : gss_upcall_callback(t)
    \/ \E t \in {1, 2} : RpcWokenNoCallback(t)
    \/ \E t \in {1, 2} : TakeResult(t)
    \/ gss_cred_get_ctx_read(1, "gss_marshal")
    \/ gss_cred_get_ctx(1)
    \/ gss_marshal_seq_read(1)
    \/ gss_marshal_seq_inc(1)
    \/ \E maj_stat \in {"GSS_S_COMPLETE", "GSS_S_CONTEXT_EXPIRED"} :
           gss_hook_mech(1, maj_stat)
    \/ gss_hook_put_ctx(1)
    \/ gss_pipe_open(1)
    \/ gss_pipe_open_inc
    \/ rpc_pipe_read(1, FALSE)
    \/ \E in \in GssdAnswers(1, {KeyExpired, Context0}) : gss_pipe_downcall(1, in)
    \/ gss_pipe_downcall_fill(TRUE, 0)
    \/ gss_pipe_downcall_unhash
    \/ gss_pipe_downcall_release
    \/ \E x \in Ctxs : gss_do_free_ctx(x)

SpecRenew == Init /\ [][NextRenew]_vars

(***************************************************************************)
(* SpecPublish: two asynchronous requesters of one uid, with the stores of *)
(* gss_cred_set_ctx as separate steps: while one task installs the context *)
(* the other looks the credential up, refreshes it and reads its context.  *)
(***************************************************************************)
NextPublish ==
    \/ \E t \in {1, 2} : LookupCred(t, User, TRUE)
    \/ \E t \in {1, 2} : gss_refresh(t)
    \/ \E t \in {1, 2} : gss_refresh_test_new(t)
    \/ \E t \in {1, 2} : gss_alloc_msg(t)
    \/ \E t \in {1, 2} : TakeResult(t)
    \/ \E t \in {1, 2} : gss_cred_get_ctx_read(t, "gss_validate")
    \/ \E t \in {1, 2} : gss_cred_get_ctx(t)
    \/ \E t \in {1, 2} : gss_hook_mech(t, "GSS_S_COMPLETE")
    \/ \E t \in {1, 2} : gss_hook_put_ctx(t)
    \/ \E t \in {1, 2}, i \in {1, 2, 3} :
           (i = 1 => ~PipeLocked) /\ gss_cred_set_ctx_step(t, i)
    \/ \E t \in {1, 2} : gss_upcall_callback_rest(t)
    \/ ~PipeLocked /\ \E t \in {1, 2} : gss_setup_upcall_add(t)
    \/ ~PipeLocked /\ \E t \in {1, 2} : gss_setup_upcall_queue(t, 0)
    \/ ~PipeLocked /\ \E t \in {1, 2} : ~Installs(t) /\ gss_refresh_upcall(t)
    \/ ~PipeLocked /\ \E t \in {1, 2} : ~Installs(t) /\ gss_upcall_callback(t)
    \/ \E t \in {1, 2} : RpcWokenNoCallback(t)
    \/ gss_pipe_open(1)
    \/ gss_pipe_open_inc
    \/ ~PipeLocked /\ rpc_pipe_read(1, FALSE)
    \/ ~PipeLocked /\ \E in \in GssdAnswers(1, {Context0}) :
                          gss_pipe_downcall(1, in)
    \/ gss_pipe_downcall_fill(TRUE, 0)
    \/ ~PipeLocked /\ gss_pipe_downcall_unhash
    \/ gss_pipe_downcall_release
    \/ \E x \in Ctxs : gss_do_free_ctx(x)

SpecPublish == Init /\ [][NextPublish]_vars

(***************************************************************************)
(* Properties.                                                             *)
(***************************************************************************)
\* the calls that have been assigned their sequence number: gss_marshal has
\* read ctx->gc_seq into rq_seqno and has not returned
Marshalled(t) ==
    task[t].hook = "gss_marshal" /\ task[t].pc \in {"seq_inc", "hook", "hook_out"}

\* C1: on one context, the gss_marshal call that is being assigned its seqno
\* holds the current gc_seq, every call assigned before it holds a smaller
\* one (so an assignment is strictly greater than every earlier one), and
\* no two calls hold the same seqno, under any interleaving of the calls.
C1_SeqnoMonotoneUnique ==
    \A t \in Tasks : Marshalled(t) =>
        /\ task[t].pc = "seq_inc" =>
               task[t].rq_seqno = ctx[task[t].ctx].gc_seq
        /\ task[t].pc \in {"hook", "hook_out"} =>
               task[t].rq_seqno < ctx[task[t].ctx].gc_seq
        /\ \A u \in Tasks \ {t} :
               Marshalled(u) /\ task[u].ctx = task[t].ctx =>
                   task[u].rq_seqno # task[t].rq_seqno

\* two calls on one context, one assigned and marshalling, the other just
\* assigned the next seqno
C1_Witness ==
    \E t, u \in Tasks :
        /\ t # u
        /\ Marshalled(t) /\ Marshalled(u)
        /\ task[t].ctx = task[u].ctx
        /\ task[t].pc = "hook" /\ task[u].pc = "seq_inc"
        /\ task[u].rq_seqno > task[t].rq_seqno

\* the hook calls that hold a context they obtained through gss_cred_get_ctx
\* and have not released it with gss_put_ctx
HoldsCtx(t) ==
    task[t].pc \in {"seq_lock", "seq_inc", "hook", "hook_out"}

C2_OneLinkedPerUid ==
    \A p \in Pipes : \A m1, m2 \in in_downcall[p] :
        msg[m1].uid = msg[m2].uid => m1 = m2

\* one requester has linked its message and not queued it yet, the other
\* has found it in gss_add_msg and released its own
C2_Witness ==
    \E t, u \in Tasks :
        /\ t # u
        /\ task[t].pc = "queue"
        /\ task[u].pc = "attach"
        /\ task[u].gss_msg = task[t].gss_new
        /\ task[t].gss_new \in in_downcall[msg[task[t].gss_new].pipe]

\* the step in which task t runs gss_add_msg (gss_setup_upcall)
AddStep(t) ==
    task[t].pc = "add" /\ task'[t].pc # "add"

\* the message is completed: it carries a context or an error
Completed(m) ==
    msg[m].st = "live" /\ (msg[m].ctx # NULL \/ msg[m].errno < 0)

\* C3: when a requester runs gss_add_msg while a message of its uid is
\* linked, its own new message is released without being linked or queued
\* and it holds the linked one; otherwise its own message is linked.  So at
\* most one message of a uid is queued, requesters asleep for one uid sleep
\* on one message, a completed message keeps its result, and every requester
\* woken from or returning on a message gets that message's errno, a
\* returning one with errno 0 finding a context on its credential (the
\* message's own when the credential was still new).
C3_SharedUpcall ==
    [][ /\ \A t \in Tasks : AddStep(t) =>
              LET new == task[t].gss_new
                  p == msg[new].pipe
                  old == Linked(K, p, msg[new].uid)
              IN  IF old # {}
                  THEN /\ task'[t].gss_msg \in old
                       /\ msg'[new].st = "free"
                       /\ in_downcall' = in_downcall
                       /\ pipe_queue' = pipe_queue
                       /\ msg'[task'[t].gss_msg].count =
                              msg[task'[t].gss_msg].count + 1
                  ELSE /\ in_downcall'[p] = in_downcall[p] \cup {new}
                       /\ task'[t].gss_new = new
        /\ \A p \in Pipes : \A m1, m2 \in pipe_queue'[p] :
               msg'[m1].uid = msg'[m2].uid => m1 = m2
        /\ \A t, u \in Tasks :
               /\ task'[t].pc = "sleep_msg" /\ task'[u].pc = "sleep_msg"
               /\ cred'[task'[t].cred].cr_uid = cred'[task'[u].cred].cr_uid
               => task'[t].wq = task'[u].wq
        /\ \A m \in Msgs : Completed(m) /\ msg'[m].st = "live" =>
               msg'[m].errno = msg[m].errno /\ msg'[m].ctx = msg[m].ctx
        /\ \A t \in Tasks :
               task[t].pc = "sleep_msg" /\ task'[t].pc = "woken" =>
                   task'[t].err = msg[task[t].wq].errno
        /\ \A t \in Tasks :
               /\ task[t].pc = "woken" /\ task[t].cb /\ task'[t].pc = "ret"
               => LET c == task[t].cred
                      m == cred[c].gc_upcall
                  IN  /\ task'[t].err = msg[m].errno
                      /\ task'[t].err = task[t].err
                      /\ msg[m].errno = 0 =>
                             /\ msg[m].ctx # NULL
                             /\ cred'[c].gc_ctx # NULL
                             /\ "NEW" \in cred[c].cr_flags =>
                                    cred'[c].gc_ctx = msg[m].ctx
      ]_vars

\* the downcall has answered key-expired: the requester that owns the
\* callback and the one that slept on the same message both return it
C3_Witness ==
    \E t, u \in Tasks :
        /\ t # u
        /\ task[t].pc = "ret" /\ task[t].fn = "gss_upcall_callback"
        /\ task[u].pc = "ret" /\ task[u].fn = "rpc_wake_up_status"
        /\ task[t].err = -EKEYEXPIRED /\ task[u].err = -EKEYEXPIRED
        /\ task[t].cred = task[u].cred

\* the step in which gss_refresh, or the upcall callback that completes it,
\* hands 0 to the RPC engine for task t without leaving the task asleep
RefreshSucceeds(t) ==
    /\ task[t].pc # "ret"
    /\ task'[t].pc = "ret"
    /\ task'[t].fn \in {"gss_refresh", "gss_upcall_callback"}
    /\ task'[t].err = 0

\* C4 as stated: whenever gss_refresh returns 0 for a task, the task's
\* credential holds an installed context whose expiry is later than the
\* current time.
C4_RefreshSuccessUnexpired ==
    [][ \A t \in Tasks : RefreshSucceeds(t) =>
            LET c == task'[t].cred
            IN  /\ cred'[c].gc_ctx # NULL
                /\ ctx'[cred'[c].gc_ctx].gc_expiry > now'
      ]_vars

\* C4, amended: whenever gss_refresh returns 0 for a task that it did not
\* put to sleep, or the upcall callback completes with status 0, the task's
\* credential is not NEW and holds an installed context that has not been
\* freed; nothing is said of the context's expiry, which gss_refresh does
\* not look at.
C4_RefreshSuccessInstalled ==
    [][ \A t \in Tasks : RefreshSucceeds(t) =>
            LET c == task'[t].cred
            IN  /\ cred'[c].st = "live"
                /\ "NEW" \notin cred'[c].cr_flags
                /\ cred'[c].gc_ctx # NULL
                /\ ctx'[cred'[c].gc_ctx].st = "live"
                /\ ctx'[cred'[c].gc_ctx].count > 0
      ]_vars

\* gss_refresh has returned 0 on a credential whose context has expired
C4_Witness ==
    \E t \in Tasks :
        /\ task[t].pc = "ret"
        /\ task[t].fn = "gss_refresh"
        /\ task[t].err = 0
        /\ cred[task[t].cred].gc_ctx # NULL
        /\ ctx[cred[task[t].cred].gc_ctx].st = "live"
        /\ now > ctx[cred[task[t].cred].gc_ctx].gc_expiry

\* C6: a credential with NEGATIVE set becomes UPTODATE only in a step in
\* which a requester bound to it finishes an upcall whose message carries
\* errno 0 and a context, and that context is then the credential's; the
\* clock passing the retry window sets nothing.
C6_NegativeToUptodate ==
    [][ \A c \in Creds :
            /\ cred[c].st = "live" /\ cred'[c].st = "live"
            /\ "NEGATIVE" \in cred[c].cr_flags
            /\ "UPTODATE" \notin cred[c].cr_flags
            /\ "UPTODATE" \in cred'[c].cr_flags
            => \E t \in Tasks, m \in Msgs :
                   /\ task[t].cred = c
                   /\ task[t].pc # task'[t].pc
                   /\ msg[m].st = "live"
                   /\ msg[m].uid = cred[c].cr_uid
                   /\ msg[m].errno = 0
                   /\ msg[m].ctx # NULL
                   /\ ctx[msg[m].ctx].st = "live"
                   /\ cred'[c].gc_ctx = msg[m].ctx
                   /\ "NEW" \notin cred'[c].cr_flags
      ]_vars

\* the retry window of a negative credential has passed, its new upcall
\* has been answered with a context and its requester has been woken
C6_Witness ==
    \E c \in Creds, t \in Tasks :
        /\ cred[c].st = "live"
        /\ "NEGATIVE" \in cred[c].cr_flags
        /\ "UPTODATE" \notin cred[c].cr_flags
        /\ now >= cred[c].gc_upcall_timestamp + RetryDelay
        /\ task[t].cred = c
        /\ task[t].pc = "woken"
        /\ cred[c].gc_upcall # NULL
        /\ msg[cred[c].gc_upcall].errno = 0
        /\ msg[cred[c].gc_upcall].ctx # NULL

\* the message whose result task t is about to take: gc_upcall for the
\* callback, the message it holds in gss_refresh_upcall or gss_create_upcall
PendingMsg(t) ==
    IF task[t].pc = "woken" /\ task[t].cb
    THEN cred[task[t].cred].gc_upcall
    ELSE IF task[t].pc = "attach" THEN task[t].gss_msg
    ELSE NULL

\* the step in which task t takes the result of a message that the
\* downcall completed with an error
TakesError(t) ==
    /\ PendingMsg(t) # NULL
    /\ msg[PendingMsg(t)].errno < 0
    /\ msg[PendingMsg(t)].ctx = NULL
    /\ task'[t].pc = "ret"

\* the step in which gss_fill_context reads a downcall with window == 0
WindowZero ==
    /\ daemon.pc = "dc_fill"
    /\ daemon'.pc = "dc_unhash"
    /\ Len(daemon.buf) >= 4
    /\ daemon.buf[3] = 0

NegativeStep(t, pc) ==
    /\ task[t].pc = pc
    /\ task'[t].pc # pc
    /\ cred[task[t].cred].st = "live"
    /\ cred[task[t].cred].cr_ops = "gss_credops"
    /\ "NEGATIVE" \in cred[task[t].cred].cr_flags

\* C8: gss_refresh on a NEGATIVE credential at a time now with
\* gc_upcall_timestamp <= now < gc_upcall_timestamp + retry delay returns
\* -EKEYEXPIRED and no message is created, linked or queued; at
\* now >= gc_upcall_timestamp + retry delay it goes on to the upcall, which,
\* with a pipe version set and a message to allocate, creates a fresh
\* message, links it and queues it.
C8_NegativeWindow ==
    [][ \A t \in Tasks :
          LET c == task[t].cred
              ts == cred[c].gc_upcall_timestamp
              free == {m \in Msgs : msg[m].st = "free"}
              new == task'[t].gss_new
          IN
          /\ NegativeStep(t, "bound") /\ task'[t].pc \in {"ret", "test_new"} =>
                IF ts <= now /\ now < ts + RetryDelay * HZ
                THEN /\ task'[t].pc = "ret"
                     /\ task'[t].err = -EKEYEXPIRED
                     /\ msg' = msg
                     /\ in_downcall' = in_downcall
                     /\ pipe_queue' = pipe_queue
                ELSE task'[t].pc = "test_new"
          /\ NegativeStep(t, "test_new") => task'[t].pc = "alloc"
          /\ NegativeStep(t, "alloc") /\ pipe_version >= 0 /\ free # {} =>
                /\ task'[t].pc = "add"
                /\ new \in free
                /\ msg'[new].st = "live"
                /\ msg'[new].uid = cred[c].cr_uid
                /\ msg'[new].errno = 0 /\ msg'[new].ctx = NULL
          /\ NegativeStep(t, "add") =>
                /\ task'[t].pc = "queue"
                /\ task[t].gss_new \notin in_downcall[msg[task[t].gss_new].pipe]
                /\ task[t].gss_new \in in_downcall'[msg[task[t].gss_new].pipe]
          /\ NegativeStep(t, "queue") =>
                /\ task'[t].pc = "attach"
                /\ task'[t].gss_msg = task[t].gss_new
                /\ task[t].gss_new \in pipe_queue'[msg[task[t].gss_new].pipe]
      ]_vars

\* the retry window of a NEGATIVE credential has passed and the fresh
\* message of its requester is linked and queued
C8_Witness ==
    \E t \in Tasks :
        LET c == task[t].cred
            m == task[t].gss_msg
        IN  /\ task[t].pc = "attach"
            /\ "NEGATIVE" \in cred[c].cr_flags
            /\ now >= cred[c].gc_upcall_timestamp + RetryDelay * HZ
            /\ m \in in_downcall[msg[m].pipe]
            /\ m \in pipe_queue[msg[m].pipe]

\* the step in which gss_fill_context fails with one of the errors that
\* gss_pipe_downcall turns into -EAGAIN
TransientFailure ==
    /\ daemon.pc = "dc_fill"
    /\ daemon'.pc = "dc_unhash"
    /\ daemon'.err \in {-EFAULT, -ENOMEM, -EINVAL, -ENOSYS}

\* C9 as stated: after a transient failure of gss_fill_context the waiting
\* credential keeps NEW and is neither UPTODATE nor NEGATIVE, and the
\* refresher observes -EAGAIN.
C9_TransientLeavesPlainNew ==
    [][ \A t \in Tasks :
            TakesError(t) /\ msg[PendingMsg(t)].errno = -EAGAIN =>
                LET c == task[t].cred
                IN  /\ task'[t].err = -EAGAIN
                    /\ "NEW" \in cred'[c].cr_flags
                    /\ "UPTODATE" \notin cred'[c].cr_flags
                    /\ "NEGATIVE" \notin cred'[c].cr_flags
      ]_vars

\* C9, amended: when gss_fill_context fails with -EFAULT, -ENOMEM, -EINVAL
\* or -ENOSYS the message, unlinked when the downcall found it, is completed
\* with errno -EAGAIN and without a context, and no credential changes; the
\* refresher that takes the result observes -EAGAIN and its credential keeps
\* its context pointer and its flags as they were: NEW stays set, UPTODATE
\* stays clear, and NEGATIVE is not set but stays set where an earlier
\* key-expired answer had set it.
C9_TransientLeavesFlags ==
    [][ /\ TransientFailure =>
              /\ msg'[daemon.msg].errno = -EAGAIN
              /\ msg'[daemon.msg].ctx = NULL
              /\ daemon.msg \notin in_downcall'[daemon.pipe]
              /\ cred' = cred
        /\ \A t \in Tasks :
              TakesError(t) /\ msg[PendingMsg(t)].errno = -EAGAIN =>
                  LET c == task[t].cred
                  IN  /\ task'[t].err = -EAGAIN
                      /\ cred'[c].cr_flags = cred[c].cr_flags
                      /\ cred'[c].gc_ctx = cred[c].gc_ctx
                      /\ "NEW" \in cred'[c].cr_flags
                      /\ "UPTODATE" \notin cred'[c].cr_flags
      ]_vars

\* the callback has returned -EAGAIN on a credential that an earlier
\* key-expired answer had marked NEGATIVE
C9_Witness ==
    \E t \in Tasks :
        /\ task[t].pc = "ret"
        /\ task[t].fn = "gss_upcall_callback"
        /\ task[t].err = -EAGAIN
        /\ {"NEW", "NEGATIVE"} \subseteq cred[task[t].cred].cr_flags

C11_LastUserResetsVersion ==
    [][ /\ pipe_users > 0 /\ pipe_users' = 0 =>
               pipe_version_lock' = "put_pipe_version"
        /\ pipe_version_lock = "put_pipe_version" =>
               /\ pipe_users' <= pipe_users
               /\ pipe_version_lock' = "free" => pipe_version' = -1
        /\ \A t \in Tasks :
               /\ task[t].pc = "alloc" /\ task'[t].pc # "alloc"
               /\ pipe_version < 0
               /\ \E m \in Msgs : msg[m].st = "free"
               => /\ task'[t].err = -EAGAIN
                  /\ task'[t].pc \in {"sleep_pv", "pv_wait"}
                  /\ task'[t].gss_new = NULL /\ task'[t].gss_msg = NULL
                  /\ msg' = msg
                  /\ in_downcall' = in_downcall
                  /\ pipe_queue' = pipe_queue
                  /\ pipe_users' = pipe_users
      ]_vars

\* the last user is gone: pipe_users is 0 under the lock, the version is
\* about to be reset, and a requester is about to try an upcall
C11_Witness ==
    \E t \in Tasks :
        /\ task[t].pc = "alloc"
        /\ \A p \in Pipes : ~pipe_open[p]
        /\ pipe_users = 0
        /\ pipe_version >= 0
        /\ pipe_version_lock = "put_pipe_version"

\* C12: an open that finds pipe_version == -1 sets it to the version of the
\* pipe being opened; a pipe becomes open only with pipe_version equal to
\* its own version, pipe_users counting the opener; while pipe_users > 0
\* pipe_version does not change; and an open of the pipe of the other
\* version returns -EBUSY with pipe_version, pipe_users and the open pipes
\* unchanged.
C12_VersionSticky ==
    [][ /\ daemon.pc = "idle" /\ daemon'.pc = "open_inc" /\ pipe_version < 0 =>
               pipe_version' = daemon'.pipe
        /\ \A p \in Pipes : ~pipe_open[p] /\ pipe_open'[p] =>
               /\ pipe_version' = p
               /\ pipe_version = p
               /\ pipe_users' = pipe_users + 1
        /\ pipe_users > 0 => pipe_version' = pipe_version
        /\ daemon'.err = -EBUSY /\ daemon.err # -EBUSY =>
               /\ daemon.pc = "idle"
               /\ pipe_version >= 0
               /\ pipe_version # daemon'.pipe
               /\ pipe_version' = pipe_version
               /\ pipe_users' = pipe_users
               /\ pipe_open' = pipe_open
      ]_vars

\* gssd holds the pipe of version 1 open and its open of the pipe of
\* version 0 has just failed with -EBUSY
C12_Witness ==
    /\ daemon.pc = "idle"
    /\ daemon.err = -EBUSY
    /\ daemon.pipe = 0
    /\ pipe_version = 1
    /\ pipe_users > 0
    /\ pipe_open[1]
    /\ ~pipe_open[0]

ReleaseDone ==
    daemon.pc = "release" /\ daemon'.pc = "idle"

\* C13 as stated: once gss_pipe_release completes, every message that was
\* linked in the pipe's in_downcall list has errno -EPIPE and is unlinked.
C13_CloseUnlinksAll ==
    [][ ReleaseDone =>
            /\ in_downcall'[daemon.pipe] = {}
            /\ \A m \in Msgs :
                   msg[m].st = "live" /\ msg[m].pipe = daemon.pipe =>
                       msg'[m].errno = -EPIPE
      ]_vars

\* C13, amended: gss_pipe_release takes the linked messages that the pipe
\* layer has taken off its queue (gssd has read them): each gets errno
\* -EPIPE, is unlinked, and every rpc_task asleep on it is woken with -EPIPE
\* and every thread asleep on it in gss_create_upcall is woken to find the
\* errno.  A linked message that is on the
\* pipe's queue, or that has not been queued yet, is skipped: once the
\* release completes, the messages still linked are exactly of that kind
\* and keep their errno, and their waiters stay asleep.
C13_CloseUnlinksRead ==
    [][ /\ daemon.pc = "release" /\ daemon'.pc = "release_msg" =>
              LET m == daemon'.msg
              IN  /\ m \in in_downcall[daemon.pipe]
                  /\ msg[m].msg_list = "empty"
                  /\ msg'[m].errno = -EPIPE
                  /\ msg'[m].ctx = NULL
                  /\ m \notin in_downcall'[daemon.pipe]
                  /\ \A t \in Tasks :
                         /\ task[t].pc = "sleep_msg" /\ task[t].wq = m =>
                                /\ task'[t].pc = "woken"
                                /\ task'[t].err = -EPIPE
                         /\ task[t].pc = "wait_msg" /\ task[t].wq = m =>
                                /\ task'[t].pc = "attach"
                                /\ task'[t].gss_msg = m
        /\ ReleaseDone =>
              /\ in_downcall' = in_downcall
              /\ msg' = msg
              /\ \A m \in in_downcall[daemon.pipe] :
                     /\ msg[m].msg_list # "empty"
                     /\ msg[m].errno = 0
              /\ \A t \in Tasks : task'[t].pc = task[t].pc
      ]_vars

\* a message that gssd had read is stamped -EPIPE by the close and its
\* requester is woken with that status
C13_Witness ==
    \E t \in Tasks :
        /\ daemon.pc = "release_msg"
        /\ task[t].pc = "woken"
        /\ task[t].err = -EPIPE
        /\ msg[daemon.msg].errno = -EPIPE
        /\ daemon.msg \notin in_downcall[daemon.pipe]

\* the requester sleeps on a message: an rpc_task queued on its
\* rpc_waitqueue, or a thread in schedule() on its waitqueue
AsleepOn(t, m) ==
    /\ task[t].pc \in {"sleep_msg", "wait_msg"}
    /\ task[t].wq = m

\* the message has its result, or is off the in_downcall list
Settled(m) ==
    \/ msg[m].ctx # NULL
    \/ msg[m].errno < 0
    \/ m \notin in_downcall[msg[m].pipe]

\* the requester sleeps on a message that has been completed or unlinked
Stuck(t) ==
    \E m \in Msgs : AsleepOn(t, m) /\ Settled(m)

\* C14: a requester that sleeps on an upcall message which a downcall, the
\* close of the pipe or the pipe layer's purge or timeout has completed or
\* taken off the in-flight list is eventually woken, and nothing but the
\* wake-up (or a fatal signal, in gss_create_upcall) ends that sleep.  The woken requester has the message's result:
\* the rpc_task is woken with the message's errno, and the thread in
\* gss_create_upcall finds the message completed and returns 0 for a context
\* and the message's errno otherwise.
C14_WaitersWoken ==
    /\ \A t \in Tasks :
           Stuck(t) ~> (task[t].pc \in {"woken", "attach", "ret"})
    /\ [][ \A t \in Tasks :
             /\ Stuck(t) /\ ~Stuck(t)' =>
                    \/ task[t].pc = "sleep_msg" /\ task'[t].pc = "woken"
                    \/ task[t].pc = "wait_msg" /\ task'[t].pc = "attach"
                                               /\ task'[t].gss_msg = task[t].wq
                    \/ task[t].pc = "wait_msg" /\ task'[t].pc = "ret"
                                               /\ task'[t].err = -ERESTARTSYS
             /\ task[t].pc = "sleep_msg" /\ task'[t].pc = "woken" =>
                    LET m == task[t].wq
                        res == IF msg'[m].st = "live" THEN msg'[m] ELSE msg[m]
                    IN  /\ task'[t].err = res.errno
                        /\ res.ctx # NULL \/ res.errno < 0
             /\ task[t].pc = "wait_msg" /\ task'[t].pc = "attach" =>
                    LET m == task[t].wq
                    IN  msg'[m].ctx # NULL \/ msg'[m].errno < 0
             /\ task[t].pc = "attach" /\ task[t].mode = "sync"
                    /\ task'[t].pc = "ret" /\ task'[t].err # -ERESTARTSYS =>
                    task'[t].err = IF msg[task[t].gss_msg].ctx # NULL THEN 0
                                   ELSE msg[task[t].gss_msg].errno
         ]_vars

\* a second requester sleeps on a message that the downcall has taken off
\* the list and completed, while the first has been woken already
C14_Witness ==
    \E t, u \in Tasks, m \in Msgs :
        /\ t # u
        /\ AsleepOn(t, m)
        /\ Settled(m)
        /\ task[u].pc = "woken"

\* the hook of task t has called the mechanism, which reported that the
\* context has expired, and is about to return
ExpiredReturn(t) ==
    /\ task[t].pc = "hook_out"
    /\ task[t].maj_stat = "GSS_S_CONTEXT_EXPIRED"
    /\ task'[t].pc = "bound"

\* C15 as stated: whichever hook the mechanism reports context-expired to,
\* UPTODATE is cleared and the hook returns failure for that call.
C15_ExpiredFailsCall ==
    [][ \A t \in Tasks : ExpiredReturn(t) =>
            /\ "UPTODATE" \notin cred'[task[t].cred].cr_flags
            /\ task'[t].err < 0
      ]_vars

\* C15, amended: when the mechanism reports context-expired, UPTODATE is
\* cleared on the credential at once, in all four hooks; gss_validate and
\* gss_unwrap_resp (verify_mic, unwrap) then return failure for that call,
\* while gss_marshal and gss_wrap_req (get_mic, wrap) go on and return
\* success.  No other outcome of the mechanism touches the flag.
C15_ExpiredClearsUptodate ==
    [][ \A t \in Tasks :
          /\ task[t].pc = "hook" /\ task'[t].pc = "hook_out" =>
                IF task'[t].maj_stat = "GSS_S_CONTEXT_EXPIRED"
                THEN /\ "UPTODATE" \notin cred'[task[t].cred].cr_flags
                     /\ MechCalled(task[t].hook, task[t].ctx)
                ELSE cred' = cred
          /\ ExpiredReturn(t) =>
                /\ "UPTODATE" \notin cred'[task[t].cred].cr_flags
                /\ task[t].hook \in {"gss_validate", "gss_unwrap_resp"} =>
                       task'[t].err = -EIO
                /\ task[t].hook \in {"gss_marshal", "gss_wrap_req"} =>
                       task'[t].err = 0
      ]_vars

\* gss_validate has been told by gss_verify_mic that the context has
\* expired; the credential was up to date and is not any more
C15_Witness ==
    \E t \in Tasks :
        /\ task[t].pc = "hook_out"
        /\ task[t].hook = "gss_validate"
        /\ task[t].maj_stat = "GSS_S_CONTEXT_EXPIRED"
        /\ cred[task[t].cred].cr_flags = {"HASHED"}
        /\ cred[task[t].cred].gc_ctx = task[t].ctx

\* task t runs gss_refresh up to its test of RPCAUTH_CRED_NEW, or to the
\* return that comes before it
RefreshStep(t) ==
    /\ task[t].pc = "bound"
    /\ \/ task'[t].pc = "test_new"
       \/ task'[t].pc = "ret" /\ task'[t].fn = "gss_refresh"

\* the credential of task t has been used and is stale
Stale(rc) == rc.st = "live" /\ rc.cr_flags \cap {"NEW", "UPTODATE"} = {}

\* the credential n is a cache entry for the uid and the principal of o
SameKey(n, o) ==
    /\ n.st = "live"
    /\ "HASHED" \in n.cr_flags
    /\ n.cr_uid = o.cr_uid
    /\ n.gc_principal = o.gc_principal

\* gss_marshal after gss_get_mic reported GSS_S_CONTEXT_EXPIRED: the flag is
\* cleared, the header has its sequence number and gss_marshal returns
\* success
MarshalGoesOn(t) ==
    /\ /\ task[t].pc = "hook" /\ task[t].hook = "gss_marshal"
       /\ task'[t].pc = "hook_out"
       /\ task'[t].maj_stat = "GSS_S_CONTEXT_EXPIRED"
       => "UPTODATE" \notin cred'[task[t].cred].cr_flags
    /\ /\ ExpiredReturn(t) /\ task[t].hook = "gss_marshal"
       => /\ task'[t].err = 0
          /\ task[t].rq_seqno < ctx[task[t].ctx].gc_seq

\* gss_refresh tests RPCAUTH_CRED_NEW and calls gss_refresh_upcall
NewDrivesUpcall(t) ==
    /\ task[t].pc = "test_new"
    /\ task'[t].pc # "test_new"
    /\ "NEW" \in cred[task[t].cred].cr_flags
    => task'[t].pc = "alloc" /\ task'[t].mode = "async"

Constructed(x) ==
    /\ ctx[x].st # "free"
    /\ ~(daemon.pc = "dc_fill" /\ daemon.ctx = x)

\* the fields of x that gss_fill_context has set are the same after the step
SameSecCtx(x) ==
    /\ ctx'[x].gc_gss_ctx = ctx[x].gc_gss_ctx
    /\ ctx'[x].gc_wire_ctx = ctx[x].gc_wire_ctx
    /\ ctx'[x].gc_expiry = ctx[x].gc_expiry
    /\ ctx'[x].gc_win = ctx[x].gc_win

C18_NewClearHasCtx ==
    /\ [](\A c \in Creds :
            cred[c].st = "live" /\ "NEW" \notin cred[c].cr_flags =>
                /\ cred[c].gc_ctx # NULL
                /\ ctx[cred[c].gc_ctx].st = "live"
                /\ Constructed(cred[c].gc_ctx)
                /\ ctx[cred[c].gc_ctx].gc_win > 0)
    /\ [](\A t \in Tasks : task[t].pc = "get_ctx_rcu" => task[t].ctx # NULL)
    /\ [][ \A c \in Creds :
             "NEW" \in cred[c].cr_flags /\ "NEW" \notin cred'[c].cr_flags
             /\ cred'[c].st = "live" =>
                 /\ cred[c].gc_ctx # NULL
                 /\ "UPTODATE" \in cred[c].cr_flags
                 /\ cred'[c].gc_ctx = cred[c].gc_ctx
         ]_vars

\* one task is between the second and the third store of gss_cred_set_ctx,
\* the credential still NEW with its context and UPTODATE, while the other
\* task is in gss_refresh at its test of RPCAUTH_CRED_NEW
C18_Witness ==
    \E t, u \in Tasks :
        /\ task[t].pc = "set_ctx_3"
        /\ task[u].pc = "test_new" /\ task[u].cred = task[t].cred
        /\ {"NEW", "UPTODATE"} \subseteq cred[task[t].cred].cr_flags
        /\ cred[task[t].cred].gc_ctx # NULL

\* a fatal signal takes the synchronous waiter t out of gss_create_upcall
IntrStep(t) ==
    /\ task[t].pc \in {"attach", "wait_msg"} /\ task[t].mode = "sync"
    /\ task'[t].pc = "ret" /\ task'[t].err = -ERESTARTSYS

\* C19: a synchronous waiter of gss_create_upcall that a fatal signal
\* interrupts returns -ERESTARTSYS and drops its own reference of the
\* message and nothing else: the in_downcall lists and the pipe queues are
\* as before, the message is live with its count one less, its result
\* untouched, and no other requester, credential or context changes.  A
\* linked message leaves its list only when the downcall takes it or when
\* the pipe's close or purge completes it with an error (the last reference
\* may go in the same step), never in a step that returns a requester; and a
\* synchronous requester that returns on a completed message gets that
\* message's result, 0 with its context installed or its errno.
C19_InterruptKeepsMsg ==
    [][ /\ \A t \in Tasks : IntrStep(t) =>
              LET m == task[t].gss_msg
              IN  /\ in_downcall' = in_downcall
                  /\ pipe_queue' = pipe_queue
                  /\ msg' = [msg EXCEPT ![m].count = @ - 1]
                  /\ msg'[m].count >= 1
                  /\ cred' = cred /\ ctx' = ctx
                  /\ \A u \in Tasks \ {t} : task'[u] = task[u]
        /\ \A p \in Pipes : \A m \in in_downcall[p] \ in_downcall'[p] :
              \/ daemon'.pc = "dc_fill" /\ daemon'.msg = m
              \/ msg'[m].st = "live" /\ msg'[m].errno < 0
              \/ /\ msg'[m].st = "free"
                 /\ \A t \in Tasks : task'[t].pc = "ret" => task[t].pc = "ret"
        /\ \A u \in Tasks :
              /\ task[u].pc = "attach" /\ task[u].mode = "sync"
              /\ task'[u].pc = "ret" /\ ~IntrStep(u)
              => LET m == task[u].gss_msg
                 IN  /\ Completed(m)
                     /\ task'[u].err =
                            IF msg[m].ctx # NULL THEN 0 ELSE msg[m].errno
                     /\ msg[m].ctx # NULL =>
                            /\ "NEW" \notin cred'[task[u].cred].cr_flags
                            /\ cred'[task[u].cred].gc_ctx # NULL
      ]_vars

\* one waiter has been interrupted and has returned -ERESTARTSYS while the
\* other still waits on the message, which is linked and not completed
C19_Witness ==
    \E t, u \in Tasks :
        /\ task[t].pc = "ret" /\ task[t].err = -ERESTARTSYS
        /\ task[u].pc = "wait_msg" /\ task[u].gss_msg # NULL
        /\ LET m == task[u].gss_msg
           IN  /\ m \in in_downcall[msg[m].pipe]
               /\ msg[m].st = "live" /\ ~Completed(m)

\* C20: a synchronous caller that gss_setup_upcall turns away with -EAGAIN
\* has found no pipe version and has linked no message; it waits on
\* pipe_version_waitqueue.  When the wait has timed out and the version is
\* still unknown at the test that follows, gssd_running is cleared and
\* gss_create_upcall returns -EACCES, with no message allocated, linked or
\* queued; when a version is there at that test and no signal ended the
\* wait, the caller goes back to gss_setup_upcall.
C20_NoVersionSyncWait ==
    /\ [](\A t \in Tasks : task[t].pc \in {"pv_wait", "pv_test"} =>
            /\ task[t].mode = "sync"
            /\ task[t].gss_new = NULL /\ task[t].gss_msg = NULL)
    /\ [][ \A t \in Tasks :
            /\ task[t].pc # "pv_wait" /\ task'[t].pc = "pv_wait" =>
                  /\ pipe_version < 0
                  /\ msg' = msg /\ in_downcall' = in_downcall
            /\ task[t].pc = "pv_wait" /\ task'[t].pc = "pv_test" =>
                  /\ task'[t].err = 0 => pipe_version < 0
                  /\ task'[t].err > 0 => pipe_version >= 0
            /\ task[t].pc = "pv_test" /\ task'[t].pc # "pv_test" =>
                  IF pipe_version < 0
                  THEN /\ task'[t].pc = "ret" /\ task'[t].err = -EACCES
                       /\ task[t].err = 0 => ~gssd_running'
                       /\ task[t].err # 0 => gssd_running' = gssd_running
                       /\ msg' = msg /\ in_downcall' = in_downcall
                       /\ pipe_queue' = pipe_queue
                  ELSE IF task[t].err >= 0
                  THEN /\ task'[t].pc = "alloc"
                       /\ gssd_running' = gssd_running
                  ELSE /\ task'[t].pc = "ret"
                       /\ task'[t].err = -ERESTARTSYS
         ]_vars

\* the wait has timed out without a pipe version: gss_create_upcall has
\* returned -EACCES, gssd_running is clear and no message exists
C20_Witness ==
    \E t \in Tasks :
        /\ task[t].pc = "ret" /\ task[t].fn = "gss_create_upcall"
        /\ task[t].err = -EACCES
        /\ ~gssd_running /\ pipe_version < 0
        /\ \A m \in Msgs : msg[m].st = "free"

(***************************************************************************)
(* C21.  The destruction of a credential.                                  *)
(***************************************************************************)
\* the rpc_tasks that rpc_call_null() starts for the credential c in a step
NullStarted(c) ==
    {t \in Tasks : /\ task[t].mode # "null"
                   /\ task'[t].mode = "null"
                   /\ task'[t].cred = c}

\* the step frees the credential c and drops what it held: the reference of
\* its context, if it has one, and its reference of the gss_auth
FreesCred(c) ==
    /\ cred'[c].st = "free"
    /\ auth'.kref = auth.kref - 1
    /\ \A x \in Ctxs :
           cred[c].gc_ctx = x =>
               \/ ctx'[x].count = ctx[x].count - 1 /\ ctx'[x].count > 0
               \/ ctx[x].count = 1 /\ ctx'[x].st # "live"

\* a step of the requester t leaves the upcall messages and queues alone
NoUpcall(t) ==
    /\ msg' = msg
    /\ in_downcall' = in_downcall
    /\ pipe_queue' = pipe_queue
    /\ task'[t].gss_msg = NULL

LiveCreds ==
    {c \in Creds : cred[c].st = "live"}

\* the gss_auth has been handed to gss_free, or does not exist yet
AuthGone ==
    auth.pc \in {"gss_free", "freed", "gss_create", "err_unlink_pipes"}

\* C25: the gss_auth is handed to kfree at most once, by gss_free, which
\* runs only after gss_destroy has put the reference of gss_create and
\* while no credential made by gss_create_cred is left, one whose
\* RPC_GSS_PROC_DESTROY call is in flight included: the kref counts the
\* reference of gss_create and one for every such credential.
C25_AuthFreedOnceAfterCreds ==
    /\ [](/\ auth.frees <= 1
          /\ auth.frees = 1 <=> auth.pc = "freed"
          /\ AuthGone => LiveCreds = {}
          /\ auth.pc \in {"live", "gss_destroy", "destroyed", "gss_free"} =>
                 auth.kref = Cardinality(LiveCreds)
                             + (IF auth.pc \in {"live", "gss_destroy"}
                                THEN 1 ELSE 0))
    /\ [][
           /\ auth'.pc = "gss_free" /\ auth.pc # "gss_free" =>
                 /\ auth.pc \in {"gss_destroy", "destroyed"}
                 /\ \A c \in Creds : cred'[c].st = "free"
           /\ auth'.frees > auth.frees =>
                 /\ auth.frees = 0
                 /\ LiveCreds = {}
                 /\ auth.pc \in {"gss_free", "gss_create", "err_unlink_pipes"}
          ]_vars

\* gss_free runs because the credential whose RPC_GSS_PROC_DESTROY call was
\* in flight when gss_destroy returned has been released
C25_Witness ==
    /\ auth.pc = "gss_free"
    /\ \E x \in Ctxs : ctx[x].st = "rcu"
                        /\ ctx[x].gc_proc = RPC_GSS_PROC_DESTROY

(***************************************************************************)
(* C26.  The pipefs entries of the two pipes.                              *)
(***************************************************************************)
\* C26: whenever the client's pipefs directory has the entry of the v0 pipe
\* (named after the mechanism) it has the entry of the v1 pipe ("gssd"):
\* gss_pipes_dentries_create makes v1 first and removes it when v0 cannot
\* be made, gss_pipes_dentries_destroy removes v0 first.
C26_V0EntryOnlyWithV1 ==
    /\ [](auth.dentry[0] => auth.dentry[1])
    /\ [][/\ auth.op = "create_v1" /\ auth'.op = "create_v0" =>
                 auth'.dentry[1] /\ ~auth'.dentry[0]
          /\ auth.op = "create_v0" /\ auth'.err < 0 =>
                 ~auth'.dentry[1] /\ ~auth'.dentry[0]
          /\ auth.op = "destroy_v0" /\ auth' # auth =>
                 ~auth'.dentry[0] /\ auth'.dentry[1] = auth.dentry[1]
         ]_vars

\* gss_free has removed the entry of the v0 pipe and not yet that of v1
C26_Witness ==
    /\ auth.pc = "gss_free"
    /\ auth.op = "destroy_v1"
    /\ auth.dentry[1]
    /\ ~auth.dentry[0]

(***************************************************************************)
(* C22.  The integrity service, there and back.                            *)
(***************************************************************************)
\* gss_unwrap_resp has been applied to a body that gss_wrap_req wrapped for
\* the integrity service
IntegDone ==
    /\ call.fn = "gss_wrap_req"
    /\ call.pc = "done"
    /\ call.gc_proc = RPC_GSS_PROC_DATA
    /\ call.gc_service = "RPC_GSS_SVC_INTEGRITY"
    /\ call.maj_stat = "GSS_S_COMPLETE"

\* decode() is given the body that encode() wrote
Presented ==
    call.status = 0 /\ call.decode /\ call.decoded = call.body

\* gss_unwrap_resp fails and decode() is not called
Refused ==
    call.status = -EIO /\ ~call.decode

\* the statement as written: every body that arrives as sent is presented
\* to the decoder, and a change of the sequence number, of the MIC or of
\* the covered bytes is refused
C22_IntegRoundTripEveryBody ==
    IntegDone =>
        /\ call.transit = "none" => Presented
        /\ call.transit \in {"seq", "body", "mic"} => Refused

\* C22: for the integrity service, proc DATA and a mechanism whose
\* verify_mic accepts the MICs of its get_mic only, gss_unwrap_resp applied
\* with the same seqno to what gss_wrap_req made presents the body to the
\* decoder when the length of the body is a multiple of four, and fails
\* with -EIO without calling the decoder when it is not (the length field,
\* 4 + the length of the body, has one of its two low bits set); it also
\* fails without calling the decoder when a bit of the sequence field, of
\* the MIC or of the covered bytes has changed in transit.
C22_IntegRoundTripAligned ==
    IntegDone =>
        /\ call.transit = "none" =>
               IF Len(call.body) % 4 = 0 THEN Presented ELSE Refused
        /\ call.transit \in {"seq", "body", "mic"} => Refused

\* a body of sixteen bytes has gone there and back
C22_Witness ==
    /\ IntegDone
    /\ call.transit = "none"
    /\ Len(call.body) = 16
    /\ ntohl(call.buf, 0) = 20
    /\ Presented

(***************************************************************************)
(* C23.  The padding of the privacy service.                               *)
(***************************************************************************)
\* gss_wrap_req_priv has wrapped a body
PrivWrapped ==
    /\ call.fn = "gss_wrap_req"
    /\ call.pc = "sent"
    /\ call.gc_proc = RPC_GSS_PROC_DATA
    /\ call.gc_service = "RPC_GSS_SVC_PRIVACY"

\* C23: after gss_wrap_req_priv, with len the length of what the
\* mechanism's wrap made (len >= 1), the length word holds len, it is
\* followed by the len bytes and by 3 - ((len - 1) mod 4) zero bytes, a
\* number in 0..3 that makes len plus the padding a multiple of four.
C23_PrivPadding ==
    PrivWrapped =>
        LET len == Len(gss_wrap(call.gss_ctx,
                                htonl(call.rq_seqno) \o call.body))
        IN  /\ len >= 1
            /\ ntohl(call.buf, 0) = len
            /\ call.pad = 3 - ((len - 1) % 4)
            /\ call.pad \in 0..3
            /\ (len + call.pad) % 4 = 0
            /\ Len(call.buf) = 4 + len + call.pad
            /\ \A i \in 1..call.pad : call.buf[4 + len + i] = 0

\* a token whose length is one more than a multiple of four gets three bytes
C23_Witness ==
    /\ PrivWrapped
    /\ ntohl(call.buf, 0) % 4 = 1
    /\ call.pad = 3
    /\ Len(call.buf) = 4 + ntohl(call.buf, 0) + 3

(***************************************************************************)
(* C24.  The size of a v1 upcall.                                          *)
(***************************************************************************)
\* gss_encode_v1_msg is at work on, or has made, the text of the upcall
EncodesV1 ==
    /\ call.fn = "gss_encode_msg"
    /\ call.pipe_version = 1
    /\ call.pc # "encode"

\* C24: a v1 upcall of exactly UPCALL_BUF_LEN bytes is emitted and queued
\* (it does not stop at the BUG_ON), and a request whose text is longer is
\* refused: it is not queued, and no byte is stored behind databuf for it.
C24_V1MsgBounded ==
    EncodesV1 =>
        /\ call.pc = "BUG" => call.len > UPCALL_BUF_LEN
        /\ call.len > UPCALL_BUF_LEN =>
               /\ call.pc \notin {"encoded", "queued"}
               /\ call.written <= UPCALL_BUF_LEN
               /\ call.heap = "intact"

\* a text of 129 bytes: the last two and the NUL have been stored behind
\* databuf before the BUG_ON stops the thread
C24_Witness ==
    /\ EncodesV1
    /\ call.pc = "BUG"
    /\ call.len = UPCALL_BUF_LEN + 1
    /\ call.written = UPCALL_BUF_LEN + 2

(***************************************************************************)
(* C27.  The reference count of a context.                                 *)
(***************************************************************************)
\* the holders of the context x: the downcall that made it, the upcall
\* messages that carry it, the credentials it is installed on, and the
\* marshal, validate, wrap and unwrap calls that have taken it
Holders(x) ==
    (IF daemon.pc # "idle" /\ daemon.ctx = x THEN 1 ELSE 0)
    + Cardinality({m \in Msgs : msg[m].st = "live" /\ msg[m].ctx = x})
    + Cardinality({c \in Creds : cred[c].st = "live" /\ cred[c].gc_ctx = x})
    + Cardinality({t \in Tasks : HoldsCtx(t) /\ task[t].ctx = x})

Expired(rc) ==
    rc.gc_ctx # NULL /\ now > call.expiry

\* the match rules
MatchRules(acred, rc) ==
    IF "NEW" \notin rc.cr_flags /\ (Expired(rc) \/ "UPTODATE" \notin rc.cr_flags)
    THEN FALSE
    ELSE IF acred.principal # NoString
    THEN rc.gc_principal # NoString /\ rc.gc_principal = acred.principal
    ELSE rc.gc_principal = NoString /\ rc.cr_uid = acred.uid

\* C28: gss_match returns what the match rules give: a new credential
\* skips the tests of the expiry and of RPCAUTH_CRED_UPTODATE; one that is
\* not new never matches when its context has expired (now > expiry) or
\* when it is not up to date; then a lookup with a principal matches only
\* a credential with an equal principal, and a lookup without one only a
\* credential without a principal and with the same uid.
C28_MatchRules ==
    call.fn = "gss_match" /\ call.pc = "done" =>
        call.result = MatchRules(call.acred, cred[1])

\* gss_match has refused a credential that is up to date and has the uid of
\* the lookup, because its context expired before jiffies wrapped and the
\* call is made after
C28_Witness ==
    /\ call.fn = "gss_match"
    /\ call.pc = "done"
    /\ call.result = FALSE
    /\ cred[1].cr_flags = {"HASHED", "UPTODATE"}
    /\ cred[1].gc_principal = NoString
    /\ call.acred.principal = NoString
    /\ cred[1].cr_uid = call.acred.uid
    /\ call.expiry = 2^JiffiesBits - 1
    /\ now = 2^JiffiesBits

(***************************************************************************)
(* C29.  The downcalls that are refused.                                   *)
(***************************************************************************)
\* a write that is longer than MSG_BUF_MAXSIZE, too short for the uid, or
\* for a uid of which pipe p has no message in in_downcall
BadDowncall(p, in) ==
    \/ in.mlen > MSG_BUF_MAXSIZE
    \/ in.mlen < 4
    \/ \A m \in in_downcall[p] : msg[m].uid # in.buf[1]

\* C29: a downcall that is larger than 1024 bytes, or too short to hold the
\* uid, or whose uid has no message in the in_downcall list of its pipe,
\* returns an error to the daemon (-EFBIG for the first, -EFAULT for the
\* second) and leaves the in_downcall lists, every message with its result
\* and its errno, and every credential with its flags and its context as
\* they were.
C29_RefusedDowncallFrame ==
    [][\A in \in DowncallInputs :
          BadDowncall(1, in) /\ gss_pipe_downcall(1, in) =>
              /\ daemon'.pc = "idle"
              /\ daemon'.err < 0
              /\ in.mlen > MSG_BUF_MAXSIZE => daemon'.err = -EFBIG
              /\ in.mlen < 4 => daemon'.err = -EFAULT
              /\ in_downcall' = in_downcall
              /\ pipe_queue' = pipe_queue
              /\ msg' = msg
              /\ cred' = cred
              /\ task' = task]_vars

\* gssd has written a context for uid 0 while the upcall of uid 1000, which
\* it has read, waits in the pipe: the write has returned -ENOENT and the
\* message is still linked, without result
C29_Witness ==
    /\ daemon.pc = "idle"
    /\ daemon.err = -ENOENT
    /\ daemon.buf = << 0, 0, 1, 4, 7, 4, 9 >>
    /\ \E m \in UpcallsRead(1) :
          /\ msg[m].uid = 1000
          /\ msg[m].ctx = NULL
          /\ msg[m].errno = 0
    /\ \E c \in Creds : /\ cred[c].st = "live"
                        /\ "NEW" \in cred[c].cr_flags
                        /\ cred[c].gc_upcall # NULL

(***************************************************************************)
(* C30.  The reference count of an upcall message.                         *)
(***************************************************************************)
\* the holders of the message m: the requesters that have it from
\* gss_alloc_msg or gss_add_msg, the credentials it is the gc_upcall of,
\* the in_downcall list, and the pipe operation that works on it.
\* gss_pipe_downcall has its own reference from __gss_find_upcall and, from
\* its list_del_init to its __gss_unhash_msg, that of the list;
\* gss_pipe_release has its own
MsgHolders(m) ==
    Cardinality({t \in Tasks : task[t].gss_msg = m \/ task[t].gss_new = m})
    + Cardinality({c \in Creds : cred[c].st = "live" /\ cred[c].gc_upcall = m})
    + (IF \E p \in Pipes : m \in in_downcall[p] THEN 1 ELSE 0)
    + (IF daemon.pc \in {"dc_fill", "dc_unhash"} /\ daemon.msg = m THEN 2
       ELSE IF daemon.pc \in {"dc_release", "release_msg"} /\ daemon.msg = m
       THEN 1 ELSE 0)

\* C30: an upcall message is freed only in the step that takes its count to
\* zero, and it is then in no in_downcall list (the BUG_ON of
\* gss_release_msg does not fire); the count of a message is the number of
\* its holders, of which the list is one from the linking to the one
\* operation that unlinks it, however the downcalls, the closing of the
\* pipe, the destroy_msg of the pipe layer and the releases of the
\* requesters interleave.
C30_MsgFreedAtZeroUnlinked ==
    /\ [](\A m \in Msgs :
            /\ msg[m].st = "live" => msg[m].count = MsgHolders(m)
            /\ msg[m].st = "live" <=> msg[m].count > 0
            /\ \A p \in Pipes : m \in in_downcall[p] => msg[m].st = "live")
    /\ [][\A m \in Msgs :
            msg[m].st = "live" /\ msg'[m].st # "live" =>
                /\ msg'[m].count = 0
                /\ \A p \in Pipes : m \notin in_downcall'[p]]_vars

\* gssd has answered an upcall that it had not read: the requester has its
\* context and has released the message, which was freed with the count at
\* zero, out of in_downcall, and still on the queue of the pipe
C30_Witness ==
    \E m \in Msgs :
        /\ msg[m].st = "free"
        /\ msg[m].count = 0
        /\ m \in pipe_queue[1]
        /\ m \notin in_downcall[1]
        /\ \E c \in Creds : /\ cred[c].st = "live"
                            /\ "UPTODATE" \in cred[c].cr_flags
                            /\ cred[c].gc_ctx # NULL
        /\ task[1].gss_msg # m

(***************************************************************************)
(* C31.  The messages and their pipe_users references are released.       *)
(***************************************************************************)
\* every requester has returned from its upcall, no message is in an
\* in_downcall list, and no pipe operation is in progress
Quiescent ==
    /\ \A t \in Tasks : task[t].pc \in {"idle", "ret", "bound"}
    /\ \A p \in Pipes : in_downcall[p] = {}
    /\ daemon.pc = "idle"

\* C31: once all requesters have returned and no message is linked, no
\* message of gss_alloc_msg remains allocated and pipe_users is the number
\* of pipes that gssd holds open, also after rpc_queue_upcall has failed in
\* gss_setup_upcall and after a new message has lost against the one
\* already linked for its uid.
C31_MsgsReleased ==
    Quiescent =>
        /\ \A m \in Msgs : msg[m].st = "free"
        /\ pipe_users = Cardinality({p \in Pipes : pipe_open[p]})

\* rpc_queue_upcall has failed with -EPIPE and gss_refresh has returned it:
\* the message is out of in_downcall with the count 1 that nobody holds,
\* and pipe_users counts it besides the open pipe
C31_Witness ==
    /\ Quiescent
    /\ \E t \in Tasks : task[t].pc = "ret" /\ task[t].err = -EPIPE
    /\ \E m \in Msgs : /\ msg[m].st = "live"
                       /\ msg[m].count = 1
                       /\ msg[m].msg_list = "zero"
    /\ pipe_users = Cardinality({p \in Pipes : pipe_open[p]}) + 1

(***************************************************************************)
(* C32.  The principal of the message a credential takes its context from. *)
(***************************************************************************)
\* the messages the credential c is attached to: its gc_upcall, and the
\* one its requester has from gss_setup_upcall
AttachedTo(c) ==
    {m \in Msgs : \/ cred[c].gc_upcall = m
                  \/ \E t \in Tasks : task[t].cred = c /\ task[t].gss_msg = m}

\* C32: a credential is only attached to upcall messages that were encoded
\* for its own principal (service name), and every context that is
\* installed on a credential comes from such a message: the search for a
\* message of the same uid never gives a credential the message, and the
\* context, of another credential of that uid with a different principal.
C32_OwnPrincipal ==
    /\ [](\A c \in Creds : \A m \in AttachedTo(c) :
            cred[c].st = "live" /\ msg[m].st = "live" =>
                msg[m].service_name = cred[c].gc_principal)
    /\ [][\A c \in Creds :
            cred'[c].gc_ctx # NULL /\ cred'[c].gc_ctx # cred[c].gc_ctx =>
                \E m \in Msgs :
                    /\ msg[m].st = "live"
                    /\ msg[m].ctx = cred'[c].gc_ctx
                    /\ msg[m].service_name = cred[c].gc_principal]_vars

\* the credential of the user root holds the context that gssd made for the
\* upcall of the machine credential, which asked for the principal "nfs"
C32_Witness ==
    \E c, d \in Creds :
        /\ cred[c].st = "live" /\ cred[d].st = "live"
        /\ cred[c].cr_uid = 0 /\ cred[c].gc_principal = NoString
        /\ cred[d].cr_uid = 0 /\ cred[d].gc_principal = "nfs"
        /\ "UPTODATE" \in cred[c].cr_flags
        /\ cred[c].gc_ctx # NULL
        /\ cred[c].gc_ctx = cred[d].gc_ctx

(***************************************************************************)
(* C33.  RPCAUTH_CRED_NEGATIVE and RPCAUTH_CRED_UPTODATE.                  *)
(***************************************************************************)
\* the credential c has both flags
NegativeUptodate(c) ==
    /\ cred[c].st = "live"
    /\ {"NEGATIVE", "UPTODATE"} \subseteq cred[c].cr_flags

\* C33: no credential has RPCAUTH_CRED_NEGATIVE and RPCAUTH_CRED_UPTODATE
\* set together, whether gss_handle_downcall_result or gss_create_upcall
\* has installed its context, and gss_refresh never returns -EKEYEXPIRED
\* for a credential that is up to date.
C33_NegativeExcludesUptodate ==
    /\ [](\A c \in Creds : ~NegativeUptodate(c))
    /\ [][\A t \in Tasks :
            /\ task[t].pc = "bound"
            /\ task'[t].pc = "ret"
            /\ task'[t].fn = "gss_refresh"
            /\ task'[t].err = -EKEYEXPIRED
            => "UPTODATE" \notin cred[task[t].cred].cr_flags]_vars

\* gss_create_upcall has installed a context on a credential that an
\* earlier -EKEYEXPIRED answer had marked negative, and the flag is still
\* set
C33_WitnessSync ==
    \E c \in Creds :
        /\ NegativeUptodate(c)
        /\ task[2].mode = "sync"
        /\ task[2].cred = c
        /\ task[2].pc = "ret"
        /\ task[2].err = 0

\* gss_refresh has returned -EKEYEXPIRED for a credential that has both
\* flags and its context
C33_Witness ==
    \E t \in Tasks :
        /\ task[t].pc = "ret"
        /\ task[t].fn = "gss_refresh"
        /\ task[t].err = -EKEYEXPIRED
        /\ task[t].gss_msg = NULL
        /\ NegativeUptodate(task[t].cred)
        /\ cred[task[t].cred].gc_ctx # NULL
        /\ cred[task[t].cred].gc_upcall = NULL

(***************************************************************************)
(* SpecVersion: gss_alloc_msg in its two halves, get_pipe_version under    *)
(* pipe_version_lock and the read of sn->pipe_version in gss_encode_msg    *)
(* without it, while gssd opens, reads, answers and closes the pipes of    *)
(* both versions.                                                          *)
(***************************************************************************)
\* msg.len of a message that gss_encode_msg has not filled yet
NotEncoded == -1

\* a faulty get_pipe_version that returns the version without counting a
\* user
gss_alloc_msg_get_noref(t) ==
    /\ task[t].pc = "alloc"
    /\ pipe_version_lock = "free"
    /\ LET free == {m \in Msgs : msg[m].st = "free"}
           c == task[t].cred
       IN  IF free = {}
           THEN Commit(SetupError(K, t, -ENOMEM))
           ELSE IF pipe_version < 0
           THEN Commit(SetupError(K, t, -EAGAIN))
           ELSE Commit([K EXCEPT
                    !.msg[Min(free)] =
                        [ st |-> "live", count |-> 1, uid |-> cred[c].cr_uid,
                          pipe |-> pipe_version, ctx |-> NULL, errno |-> 0,
                          service_name |-> cred[c].gc_principal,
                          vers |-> NotEncoded,
                          msg_list |-> "zero" ],
                    !.task[t].gss_new = Min(free),
                    !.task[t].err = 0,
                    !.task[t].pc = "encode"])
    /\ EnvUnchanged

\* gss_alloc_msg up to the call of gss_encode_msg: kzalloc, get_pipe_version
\* inside pipe_version_lock, and the stores into the new message
gss_alloc_msg_get(t) ==
    /\ task[t].pc = "alloc"
    /\ pipe_version_lock = "free"
    /\ LET free == {m \in Msgs : msg[m].st = "free"}
           c == task[t].cred
       IN  IF free = {}
           THEN Commit(SetupError(K, t, -ENOMEM))
           ELSE IF pipe_version < 0
           THEN Commit(SetupError(K, t, -EAGAIN))
           ELSE Commit([K EXCEPT
                    !.pipe_users = @ + 1,
                    !.msg[Min(free)] =
                        [ st |-> "live", count |-> 1, uid |-> cred[c].cr_uid,
                          pipe |-> pipe_version, ctx |-> NULL, errno |-> 0,
                          service_name |-> cred[c].gc_principal,
                          vers |-> NotEncoded,
                          msg_list |-> "zero" ],
                    !.task[t].gss_new = Min(free),
                    !.task[t].err = 0,
                    !.task[t].pc = "encode"])
    /\ EnvUnchanged

\* gss_encode_msg: sn->pipe_version is read again, without the lock; zero
\* selects gss_encode_v0_msg and every other value gss_encode_v1_msg
gss_alloc_msg_encode(t) ==
    /\ task[t].pc = "encode"
    /\ Commit([K EXCEPT
            !.msg[task[t].gss_new].vers = IF pipe_version = 0 THEN 0 ELSE 1,
            !.task[t].pc = "add"])
    /\ EnvUnchanged

NextVersion ==
    \/ \E n \in BOOLEAN : LookupCred(1, User, n)
    \/ \E how \in {"woken", "timeout", "signal"} : gss_create_upcall_wait(1, how)
    \/ gss_create_upcall_retry(1)
    \/ gss_create_upcall(1)
    \/ gss_create_upcall_schedule(1)
    \/ gss_create_upcall_intr(1)
    \/ gss_refresh(1)
    \/ gss_refresh_test_new(1)
    \/ gss_alloc_msg_get(1)
    \/ gss_alloc_msg_encode(1)
    \/ gss_setup_upcall_add(1)
    \/ gss_setup_upcall_queue(1, 0)
    \/ gss_refresh_upcall(1)
    \/ gss_upcall_callback(1)
    \/ RpcPipeVersionTimeout(1)
    \/ TakeResult(1)
    \/ PutCred(1)
    \/ \E p \in Pipes : gss_pipe_open(p)
    \/ gss_pipe_open_inc
    \/ put_pipe_version_reset
    \/ \E p \in Pipes, oops \in BOOLEAN : rpc_pipe_read(p, oops)
    \/ \E p \in Pipes : rpc_timeout_upcall_queue(p)
    \/ \E p \in Pipes : rpc_pipe_release(p)
    \/ \E oops \in BOOLEAN : rpc_pipe_release_purge(oops)
    \/ gss_pipe_release
    \/ gss_pipe_release_msg
    \/ \E p \in Pipes : \E in \in GssdAnswers(p, {KeyExpired, Context0}) :
           gss_pipe_downcall(p, in)
    \/ gss_pipe_downcall_fill(TRUE, 0)
    \/ gss_pipe_downcall_unhash
    \/ gss_pipe_downcall_release
    \/ \E x \in Ctxs : gss_do_free_ctx(x)

SpecVersion == Init /\ [][NextVersion]_vars

====
